---- MODULE Spec2Model ----
(***************************************************************************)
(* Verification model of the fencio-dev/guard decision pipeline.           *)
(*                                                                         *)
(* Part I   Management Plane: the in-memory boundary store and the         *)
(*          /intents/compare endpoint (applicability filter, sandbox       *)
(*          comparison, deny-first aggregation).                           *)
(* Part II  SDK: SecureGraphProxy, the streaming enforcement proxy that    *)
(*          wraps a compiled agent graph.                                  *)
(*                                                                         *)
(* Similarities are fixed-point numbers scaled by 100 (0.95 -> 95), rule   *)
(* weights are scaled by 4 (0.25 -> 1).                                    *)
(***************************************************************************)
EXTENDS Integers, Sequences, FiniteSets, TLC

VARIABLES
    boundaries_store,        \* _boundaries_store: insertion-ordered dict, as a sequence of boundaries
    mp_call,                 \* <<>> or <<r>>: the compare_intent request answered last against the
                             \* current store (the event and what sandbox.compare answered)
    mp_result,               \* <<>> or <<r>>: the ComparisonResult returned for mp_call
    enforced_tool_call_ids,  \* SecureGraphProxy._enforced_tool_call_ids (one set per proxy instance)
    soft_block,              \* SecureGraphProxy.soft_block
    pc,                      \* per invocation: position in the entry point (invoke/stream/ainvoke/astream)
    messages,                \* per invocation: state["messages"] of the state last pulled from the graph
    pending,                 \* per invocation: tool calls of that state still to be looked at
    pulled,                  \* per invocation: number of states pulled from the graph
    forwarded,               \* per invocation: number of states yielded / kept as final_state
    requests,                \* per invocation: tool-call ids for which an enforcement request was issued, in order
    last_outcome,            \* per invocation: outcome of the most recent enforcement request
    soft_block_calls,        \* per invocation: tool-call ids on_soft_block was called for, in order
    agent_sessions,          \* table agent_sessions: per agent id <<>> (no row) or <<row>>
    now,                     \* time.time()
    ticks,                   \* how often the clock has advanced
    started,                 \* number of write_call / compute_and_update_drift calls started so far
    inflight,                \* calls between their SELECT and their write: request id -> locals
    drift_returned,          \* per agent: sum of the values compute_and_update_drift returned
                             \* since the agent's current row was inserted
    writes_returned,         \* per agent: request ids of the write_call invocations that returned
    swept,                   \* per agent: request ids held by rows that cleanup_expired deleted
    last_op,                 \* "cleanup_expired" when the sweep was the last thing that happened
    last_deleted,            \* what that cleanup_expired returned (0 otherwise)
    init_missed,             \* per agent, where calls are recorded: "missed" once an
                             \* initialize_session_vector call found no row, "zero" once a
                             \* compute_and_update_drift call then returned 0.0 at its SELECT
                             \* from the row created afterwards, "no" at the start and after
                             \* an initialize_session_vector call that found the row
    ap_eval,                 \* the last evaluate_applicability call: <<>> or <<[inputs, environment, result]>>
    policies_v2,             \* table policies_v2: per (tenant, policy id) <<>> (no row) or <<row>>
    rule_payloads,           \* Chroma rules collections: per (tenant, policy id) <<>> or <<payload>>
    seeding,                 \* seed_policies between its row write and its payload upsert: <<>> or <<key>>
    lifespan_pc,             \* where lifespan() is: "startup", "syncing", "ready"
    cleanup_task,            \* TRUE once lifespan created the session-cleanup task
    sync_pc,                 \* where sync_active_policies_to_dataplane is
    sync_rows,               \* rows of its SELECT still to be looped over
    sync_snapshot,           \* <<>> or <<the set of keys its SELECT returned>>
    sync_seen,               \* per key: what its fetch of the payload gave
    install_attempts,        \* per key: number of client.install_policies calls
    synced,                  \* its counter synced
    errors,                  \* its counter errors
    ev_buffer,               \* EventBuffer._buffer
    lock_holder,             \* EventBuffer._lock: <<>> when free, <<thread>> when held
    running,                 \* EventBuffer._running
    buf_pc,                  \* per thread: where it is in its EventBuffer call
    buf_op,                  \* per thread: the EventBuffer method it is in
    buf_item,                \* per thread: the item of its add()
    buf_nested,              \* per thread: the method its flush handler called on the buffer
    n_added,                 \* number of add() calls made so far
    added,                   \* every item appended to _buffer, in order
    flushed,                 \* the batches handed to on_flush, in order
    late_add,                \* TRUE once an add() ran concurrently with or after stop()
    dp_call,                 \* the last DataPlaneClient.enforce call: <<>> or <<[rpc, response, result]>>
    dp_boundary_info         \* <<>> or <<what the proxy's message about that call names>>

mp_vars == <<boundaries_store, mp_call, mp_result>>
proxy_vars == <<enforced_tool_call_ids, soft_block, pc, messages, pending,
                pulled, forwarded, requests, last_outcome, soft_block_calls>>
ss_vars == <<agent_sessions, now, ticks, started, inflight, drift_returned,
             writes_returned, swept, last_op, last_deleted, init_missed>>
ap_vars == <<ap_eval>>
store_vars == <<policies_v2, rule_payloads, seeding>>
sync_vars == <<lifespan_pc, cleanup_task, sync_pc, sync_rows, sync_snapshot, sync_seen,
               install_attempts, synced, errors>>
pol_vars == <<store_vars, sync_vars>>
buf_vars == <<ev_buffer, lock_holder, running, buf_pc, buf_op, buf_item, buf_nested,
              n_added, added, flushed, late_add>>
dp_vars == <<dp_call, dp_boundary_info>>
ext_vars == <<ap_vars, pol_vars, buf_vars, dp_vars>>
vars == <<boundaries_store, mp_call, mp_result, enforced_tool_call_ids, soft_block,
          pc, messages, pending, pulled, forwarded, requests, last_outcome,
          soft_block_calls, agent_sessions, now, ticks, started, inflight,
          drift_returned, writes_returned, swept, last_op, last_deleted, init_missed,
          ap_eval, policies_v2, rule_payloads, seeding, lifespan_pc, cleanup_task,
          sync_pc, sync_rows, sync_snapshot, sync_seen, install_attempts, synced, errors,
          ev_buffer, lock_holder, running, buf_pc, buf_op, buf_item, buf_nested,
          n_added, added, flushed, late_add, dp_call, dp_boundary_info>>

None == "none"

(***************************************************************************)
(* Generic helpers                                                         *)
(***************************************************************************)
Range(s) == {s[i] : i \in 1..Len(s)}

RECURSIVE SelectSeqBy(_, _)
\* list comprehension [x for x in s if x.id in keep]
SelectSeqBy(s, keep) ==
    IF s = <<>> THEN <<>>
    ELSE IF Head(s).id \in keep
         THEN <<Head(s)>> \o SelectSeqBy(Tail(s), keep)
         ELSE SelectSeqBy(Tail(s), keep)

RECURSIVE SumAt(_, _)
SumAt(rs, i) == IF rs = <<>> THEN 0 ELSE Head(rs).sims[i] + SumAt(Tail(rs), i)

RECURSIVE MinAt(_, _)
MinAt(rs, i) ==
    IF Len(rs) = 1 THEN Head(rs).sims[i]
    ELSE LET m == MinAt(Tail(rs), i)
         IN IF Head(rs).sims[i] < m THEN Head(rs).sims[i] ELSE m

(***************************************************************************)
(* Part I.  Management Plane                                               *)
(***************************************************************************)

\* Bound: how many boundaries the store holds at once.
MaxBoundaries == 2

Tenants == {"tenant_a", "tenant_b"}

\* constraints blocks of the boundaries that get installed
ReadConstraints ==
    [actions |-> {"read"}, actor_types |-> {"user", "agent"}, types |-> {"database"},
     locations |-> {}, pii |-> None, volume |-> None, domains |-> {}, names |-> {}]

DeleteConstraints ==
    [actions |-> {"delete"}, actor_types |-> {"agent"}, types |-> {"database"},
     locations |-> {"cloud"}, pii |-> "true", volume |-> "bulk",
     domains |-> {"database", "api"}, names |-> {}]

ConstraintSets == {ReadConstraints, DeleteConstraints}

\* A DesignBoundary as compare_intent and the applicability rules read it.
Boundary(id, tenant, st, ty, eff, c) ==
    [id |-> id, tenant_id |-> tenant, status |-> st, type |-> ty, effect |-> eff,
     constraints |-> c]

\* Boundaries a client may POST. Ids are client-chosen strings; here the id
\* spells out what the boundary is, so equal ids mean equal boundaries.
BoundaryCatalogue ==
    LET combos == {<<t, st, ty, eff, c>> :
                      t \in Tenants, st \in {"active", "disabled"},
                      ty \in {"mandatory", "optional"}, eff \in {"allow", "deny"},
                      c \in ConstraintSets}
        Label(c) == IF c = ReadConstraints THEN "read" ELSE "delete"
    IN {Boundary(<<x[1], x[2], x[3], x[4], Label(x[5])>>, x[1], x[2], x[3], x[4], x[5]) : x \in
           {y \in combos : y[1] = "tenant_a" \/ (y[3] = "mandatory" /\ y[5] = ReadConstraints)}}

\* IntentEvents sent to /intents/compare
Intents ==
    { [tenant_id |-> "tenant_a", action |-> "read", actor_type |-> "agent",
       resource_type |-> "database", location |-> "cloud", name |-> "users_db",
       pii |-> "false", volume |-> "single"],
      [tenant_id |-> "tenant_a", action |-> "delete", actor_type |-> "agent",
       resource_type |-> "database", location |-> "cloud", name |-> "users_db",
       pii |-> "true", volume |-> "bulk"],
      [tenant_id |-> "tenant_a", action |-> "delete", actor_type |-> "agent",
       resource_type |-> "database", location |-> "onprem", name |-> None,
       pii |-> "false", volume |-> "single"],
      [tenant_id |-> "tenant_a", action |-> "execute", actor_type |-> "agent",
       resource_type |-> "api", location |-> None, name |-> "run_command",
       pii |-> "false", volume |-> "single"] }

\* What sandbox.compare hands back: (decision, slice similarities)
HighSims == <<95, 90, 88, 92>>
LowSims == <<50, 60, 55, 58>>
ZeroSims == <<0, 0, 0, 0>>
OneSims == <<100, 100, 100, 100>>


\* sandbox.compare for one boundary; matched is the set of boundary ids the
\* sandbox decides 1 for (the embedding comparison itself is external).
SandboxCompare(b, matched) ==
    IF b.id \in matched THEN [decision |-> 1, sims |-> HighSims]
                        ELSE [decision |-> 0, sims |-> LowSims]

(* ---- applicability.py ------------------------------------------------ *)
APPLICABILITY_MODE == "soft"         \* default of APPLICABILITY_MODE
APPLICABILITY_MIN_SCORE == 50

Outcome(rule, d, w) == [rule_id |-> rule, decision |-> d, weight |-> w]

ActionRule(intent, b) ==
    Outcome("ActionRule",
            IF intent.action \in b.constraints.actions THEN "match" ELSE "mismatch", 4)

ActorTypeRule(intent, b) ==
    Outcome("ActorTypeRule",
            IF intent.actor_type \in b.constraints.actor_types THEN "match" ELSE "mismatch", 4)

ResourceTypeRule(intent, b) ==
    Outcome("ResourceTypeRule",
            IF intent.resource_type \in b.constraints.types THEN "match" ELSE "mismatch", 4)

LocationRule(intent, b) ==
    Outcome("LocationRule",
            IF b.constraints.locations = {} THEN "abstain"
            ELSE IF intent.location = None THEN "abstain"
            ELSE IF intent.location \in b.constraints.locations THEN "match"
            ELSE "mismatch", 2)

PiiRule(intent, b) ==
    Outcome("PiiRule",
            IF b.constraints.pii = None THEN "abstain"
            ELSE IF intent.pii = None THEN "abstain"
            ELSE IF intent.pii = b.constraints.pii THEN "match"
            ELSE "mismatch", 2)

VolumeRule(intent, b) ==
    Outcome("VolumeRule",
            IF b.constraints.volume = None THEN "abstain"
            ELSE IF intent.volume = None THEN "abstain"
            ELSE IF intent.volume = b.constraints.volume THEN "match"
            ELSE "mismatch", 2)

DomainRule(intent, b) ==
    Outcome("DomainRule",
            IF b.constraints.domains = {} THEN "abstain"
            ELSE IF intent.resource_type \in b.constraints.domains THEN "match"
            ELSE "mismatch", 1)

ResourceNameRule(intent, b) ==
    Outcome("ResourceNameRule",
            IF b.constraints.names = {} THEN "abstain"
            ELSE IF intent.name = None THEN "abstain"
            ELSE IF intent.name \in b.constraints.names THEN "match"
            ELSE "mismatch", 1)

CORE_RULES(intent, b) ==
    <<ActionRule(intent, b), ActorTypeRule(intent, b), ResourceTypeRule(intent, b)>>

SOFT_RULES(intent, b) ==
    <<LocationRule(intent, b), PiiRule(intent, b), VolumeRule(intent, b),
      DomainRule(intent, b), ResourceNameRule(intent, b)>>

RECURSIVE SoftNum(_)
SoftNum(os) ==
    IF os = <<>> THEN 0
    ELSE (CASE Head(os).decision = "match" -> Head(os).weight
            [] Head(os).decision = "mismatch" -> 0 - Head(os).weight
            [] OTHER -> 0) + SoftNum(Tail(os))

\* mutant: abstaining rules add their weight to the denominator
RECURSIVE SoftDen_CountAbstaining(_)
SoftDen_CountAbstaining(os) ==
    IF os = <<>> THEN 0 ELSE Head(os).weight + SoftDen_CountAbstaining(Tail(os))

RECURSIVE SoftDen(_)
SoftDen(os) ==
    IF os = <<>> THEN 0
    ELSE (IF Head(os).decision = "abstain" THEN 0 ELSE Head(os).weight) + SoftDen(Tail(os))

\* os.getenv: <<>> when the variable is unset, <<value>> otherwise
Unset == <<>>

\* str.strip().lower() on the values the environment variable takes here
StripLower(text) ==
    CASE text = " STRICT " -> "strict"
      [] text = "Soft" -> "soft"
      [] OTHER -> text

\* _get_mode: the default when unset; anything but "strict" is soft
get_mode(env_mode) ==
    LET mode == IF env_mode = Unset THEN APPLICABILITY_MODE ELSE StripLower(Head(env_mode))
    IN IF mode = "strict" THEN "strict" ELSE "soft"

\* _get_min_score: the default when unset or unparsable, clamped into [0, 1]
\* (percent here); parses = FALSE stands for a value float() rejects
get_min_score(env_min) ==
    IF env_min = Unset \/ ~Head(env_min).parses THEN APPLICABILITY_MIN_SCORE
    ELSE IF Head(env_min).value < 0 THEN 0
    ELSE IF Head(env_min).value > 100 THEN 100
    ELSE Head(env_min).value

\* outcomes appended by the core loop: it returns at the first mismatch
RECURSIVE CoreOutcomes(_)
CoreOutcomes(core) ==
    IF core = <<>> THEN <<>>
    ELSE IF Head(core).decision = "mismatch" THEN <<Head(core)>>
    ELSE <<Head(core)>> \o CoreOutcomes(Tail(core))

\* evaluate_applicability under a given environment
evaluate_applicability_env(intent, b, env_mode, env_min) ==
    LET core == CORE_RULES(intent, b)
        soft == SOFT_RULES(intent, b)
        num == SoftNum(soft)
        den == SoftDen(soft)
        score == IF den = 0 THEN 100 ELSE ((num + den) * 100) \div (2 * den)
    IN IF \E i \in 1..Len(core) : core[i].decision = "mismatch"
       THEN [applicable |-> FALSE, score |-> 0, outcomes |-> CoreOutcomes(core)]
       ELSE IF get_mode(env_mode) = "strict"
               /\ \E i \in 1..Len(soft) : soft[i].decision = "mismatch"
       THEN [applicable |-> FALSE, score |-> score, outcomes |-> core \o soft]
       ELSE [applicable |-> score >= get_min_score(env_min), score |-> score,
             outcomes |-> core \o soft]

\* the deployment compare_intent runs in: neither variable is set
evaluate_applicability(intent, b) ==
    evaluate_applicability_env(intent, b, Unset, Unset)

is_boundary_applicable(intent, b) == evaluate_applicability(intent, b).applicable

(* ---- endpoints/intents.py -------------------------------------------- *)
\* mutant: the status filter is forgotten
ActiveBoundaries_IgnoreStatus(store) == store

ActiveBoundaries(store) ==
    LET IsActive(b) == b.status = "active" IN SelectSeq(store, IsActive)

ApplicableBoundaries(store, event) ==
    LET Applies(b) == is_boundary_applicable(event, b)
    IN SelectSeq(ActiveBoundaries(store), Applies)

\* boundary_results: one (boundary, decision, similarities) per applicable boundary
BoundaryResults(store, event, matched) ==
    LET app == ApplicableBoundaries(store, event)
    IN [i \in 1..Len(app) |->
          [boundary |-> app[i],
           decision |-> SandboxCompare(app[i], matched).decision,
           sims |-> SandboxCompare(app[i], matched).sims]]

\* mutant: evaluation stops at the first deny boundary with decision 1, so
\* its record is the last one
Evidence_UpToDenyMatch(results) ==
    LET hit == {i \in 1..Len(results) :
                   results[i].boundary.effect = "deny" /\ results[i].decision = 1}
        n == IF hit = {} THEN Len(results) ELSE CHOOSE i \in hit : \A j \in hit : i <= j
    IN [i \in 1..n |->
          [boundary_id |-> results[i].boundary.id, effect |-> results[i].boundary.effect,
           decision |-> results[i].decision, similarities |-> results[i].sims]]

\* evidence.append(evidence_entry) for every applicable boundary, in the loop
Evidence(results) ==
    [i \in 1..Len(results) |->
       [boundary_id |-> results[i].boundary.id, effect |-> results[i].boundary.effect,
        decision |-> results[i].decision, similarities |-> results[i].sims]]

ComparisonResult(d, sims, n, ev) ==
    [decision |-> d, slice_similarities |-> sims, boundaries_evaluated |-> n, evidence |-> ev]

\* the answer when no boundary is active
ColdStartResult == ComparisonResult(1, OneSims, 0, <<>>)

\* mutant: the similarities of the cold-start branch are returned
NoApplicableResult_PerfectScores == ComparisonResult(0, OneSims, 0, <<>>)

\* the answer when no active boundary is applicable
NoApplicableResult == ComparisonResult(0, ZeroSims, 0, <<>>)

\* mutant: only mandatory deny boundaries are looked at in phase 1
DenyResults_MandatoryOnly(results) ==
    LET IsDeny(r) == r.boundary.effect = "deny" /\ r.boundary.type = "mandatory"
    IN SelectSeq(results, IsDeny)

\* Phase 1 of the aggregation: the deny results, in evaluation order
DenyResults(results) ==
    LET IsDeny(r) == r.boundary.effect = "deny" IN SelectSeq(results, IsDeny)

\* mutant: optional allow boundaries take part in phase 2
MandatoryAllowResults_AnyType(results) ==
    LET IsAllow(r) == r.boundary.effect = "allow" IN SelectSeq(results, IsAllow)

\* Phase 2 of the aggregation: the mandatory allow results
MandatoryAllowResults(results) ==
    LET IsMandAllow(r) == r.boundary.effect = "allow" /\ r.boundary.type = "mandatory"
    IN SelectSeq(results, IsMandAllow)

\* mutant: one passing mandatory allow boundary is enough
all_mandatory_pass_Any(mand) == \E i \in 1..Len(mand) : mand[i].decision = 1

all_mandatory_pass(mand) == \A i \in 1..Len(mand) : mand[i].decision = 1

compare_intent(store, event, matched) ==
    LET active == ActiveBoundaries(store)
        app == ApplicableBoundaries(store, event)
        results == BoundaryResults(store, event, matched)
        evidence == Evidence(results)
        deny == DenyResults(results)
        mand == MandatoryAllowResults(results)
        hit == {i \in 1..Len(deny) : deny[i].decision = 1}
    IN IF active = <<>> THEN ColdStartResult
       ELSE IF app = <<>> THEN NoApplicableResult
       ELSE IF hit # {}
       THEN LET first == CHOOSE i \in hit : \A j \in hit : i <= j
            IN ComparisonResult(0, deny[first].sims, Len(app), evidence)
       ELSE IF mand = <<>> THEN ComparisonResult(0, ZeroSims, Len(app), evidence)
       ELSE IF all_mandatory_pass(mand)
       THEN ComparisonResult(1, [i \in 1..4 |-> SumAt(mand, i) \div Len(mand)],
                             Len(app), evidence)
       ELSE ComparisonResult(0, [i \in 1..4 |-> MinAt(mand, i)], Len(app), evidence)

StoreIds(store) == {store[i].id : i \in 1..Len(store)}

(* ---- actions ---------------------------------------------------------- *)
\* POST /boundaries (a duplicate id is answered 409 and changes nothing)
create_boundary(b) ==
    /\ b.id \notin StoreIds(boundaries_store)
    /\ Len(boundaries_store) < MaxBoundaries
    /\ boundaries_store' = Append(boundaries_store, b)
    /\ mp_call' = <<>>
    /\ mp_result' = <<>>
    /\ UNCHANGED proxy_vars
    /\ UNCHANGED <<ss_vars, ext_vars>>

\* DELETE /boundaries/{id} (an unknown id is answered 404 and changes nothing)
delete_boundary(id) ==
    /\ id \in StoreIds(boundaries_store)
    /\ boundaries_store' = SelectSeqBy(boundaries_store, StoreIds(boundaries_store) \ {id})
    /\ mp_call' = <<>>
    /\ mp_result' = <<>>
    /\ UNCHANGED proxy_vars
    /\ UNCHANGED <<ss_vars, ext_vars>>

\* POST /intents/compare
CompareIntent(event, matched) ==
    /\ mp_call' = <<[event |-> event, matched |-> matched]>>
    /\ mp_result' = <<compare_intent(boundaries_store, event, matched)>>
    /\ UNCHANGED boundaries_store
    /\ UNCHANGED proxy_vars
    /\ UNCHANGED <<ss_vars, ext_vars>>

MPInit ==
    /\ boundaries_store = <<>>
    /\ mp_call = <<>>
    /\ mp_result = <<>>

MPNext ==
    \/ \E b \in BoundaryCatalogue : create_boundary(b)
    \/ \E id \in StoreIds(boundaries_store) : delete_boundary(id)
    \/ \E event \in Intents :
         \E matched \in SUBSET StoreIds(ApplicableBoundaries(boundaries_store, event)) :
            CompareIntent(event, matched)


(***************************************************************************)
(* Part II.  SDK: SecureGraphProxy (sdk/python/tupl/agent.py)              *)
(***************************************************************************)

\* Bound: how many states the wrapped graph yields in one invocation.
MaxStates == 2

\* Invocations of one proxy instance; they may overlap (a stream generator
\* that is not exhausted yet, another thread, another task).
Invocations == {"inv1", "inv2"}

\* A message is modelled by its tool_calls list, a tool call by its id;
\* "" is a tool call without an id, <<>> a message without tool calls
\* (a human or tool message).
NoId == ""

\* The states (lists of messages) the wrapped graph may yield, in any order
\* and any number of times.
GraphStates ==
    { <<>>,
      << <<"call_1">>, <<>> >>,
      << <<"call_1">>, <<>>, <<"call_2", "call_1">> >>,
      << <<"call_1", NoId>> >> }

\* client.enforce_intent / data_plane_client.enforce: a ComparisonResult with
\* decision 1 or 0, or a transport failure raised as DataPlaneError
EnforceOutcomes == {"ALLOW", "BLOCK", "ERROR"}

\* mutant: the tool calls of the message are walked last to first
RECURSIVE ToolCallsOf_ReversedOrder(_)
ToolCallsOf_ReversedOrder(msgs) ==
    IF msgs = <<>> THEN <<>>
    ELSE IF msgs[Len(msgs)] # <<>>
         THEN [k \in 1..Len(msgs[Len(msgs)]) |-> msgs[Len(msgs)][Len(msgs[Len(msgs)]) + 1 - k]]
    ELSE ToolCallsOf_ReversedOrder(SubSeq(msgs, 1, Len(msgs) - 1))

RECURSIVE ToolCallsOf(_)
\* for message in reversed(messages): the first one with tool_calls, then break
ToolCallsOf(msgs) ==
    IF msgs = <<>> THEN <<>>
    ELSE IF msgs[Len(msgs)] # <<>> THEN msgs[Len(msgs)]
    ELSE ToolCallsOf(SubSeq(msgs, 1, Len(msgs) - 1))

\* the deduplication test at the head of the tool-call loop
AlreadyEnforced(tool_call_id, enforced) ==
    tool_call_id # NoId /\ tool_call_id \in enforced

\* mutant: the id is added without the "if tool_call_id" guard
MarkEnforced_AlsoWithoutId(tool_call_id, enforced) == enforced \cup {tool_call_id}

\* self._enforced_tool_call_ids.add(tool_call_id), guarded by "if tool_call_id"
MarkEnforced(tool_call_id, enforced) ==
    IF tool_call_id # NoId THEN enforced \cup {tool_call_id} ELSE enforced

\* the first statement of each entry point
ClearOnEntry(k, enforced) ==
    IF k \in {"invoke", "stream"} THEN {} ELSE enforced

\* mutant: in soft-block mode a transport failure is handled like a BLOCK
Disposition_SoftOnError(outcome, soft) ==
    CASE outcome = "ALLOW" -> "continue"
      [] OTHER -> IF soft THEN "continue" ELSE "raise"

\* mutant: a BLOCK never raises (the soft_block flag is not consulted)
Disposition_NeverRaiseOnBlock(outcome, soft) ==
    CASE outcome = "ERROR" -> "raise"
      [] OTHER -> "continue"

\* mutant: a BLOCK always raises (the soft_block flag is not consulted)
Disposition_AlwaysHard(outcome, soft) ==
    CASE outcome = "ALLOW" -> "continue"
      [] OTHER -> "raise"

\* what _enforce_tool_calls does with the answer for one tool call:
\* "raise" (PermissionError) or "continue" with the next tool call
Disposition(outcome, soft) ==
    CASE outcome = "ERROR" -> "raise"
      [] outcome = "BLOCK" -> IF soft THEN "continue" ELSE "raise"
      [] OTHER -> "continue"

\* self.on_soft_block(event, result) is reached on a BLOCK in soft-block mode
CallsSoftBlockHandler(outcome, soft) == outcome = "BLOCK" /\ soft

\* Control changes hands between invocations only where a generator yields or
\* a coroutine awaits the graph: _enforce_tool_calls has no suspension point.
MayRun(i) == \A j \in Invocations \ {i} : pc[j] # "enforce"

\* An entry point is entered; clears says whether its first statement is
\* self._enforced_tool_call_ids.clear(). "inv2" names the invocation that is
\* entered second.
Enter(i, k) ==
    /\ pc[i] = "idle"
    /\ MayRun(i)
    /\ i = "inv2" => pc["inv1"] # "idle"
    /\ enforced_tool_call_ids' = ClearOnEntry(k, enforced_tool_call_ids)
    /\ pc' = [pc EXCEPT ![i] = "pull"]
    /\ UNCHANGED <<soft_block, messages, pending, pulled, forwarded, requests, last_outcome, soft_block_calls>>
    /\ UNCHANGED mp_vars
    /\ UNCHANGED <<ss_vars, ext_vars>>

invoke(i) == Enter(i, "invoke")

stream(i) == Enter(i, "stream")

ainvoke(i) == Enter(i, "ainvoke")

astream(i) == Enter(i, "astream")

\* the graph yields its next state
Pull(i, st) ==
    /\ pc[i] = "pull"
    /\ MayRun(i)
    /\ pulled[i] < MaxStates
    /\ messages' = [messages EXCEPT ![i] = st]
    /\ pending' = [pending EXCEPT ![i] = ToolCallsOf(st)]
    /\ pulled' = [pulled EXCEPT ![i] = @ + 1]
    /\ pc' = [pc EXCEPT ![i] = "enforce"]
    /\ UNCHANGED <<enforced_tool_call_ids, soft_block, forwarded, requests, last_outcome, soft_block_calls>>
    /\ UNCHANGED mp_vars
    /\ UNCHANGED <<ss_vars, ext_vars>>

\* tool-call loop: the id was enforced before, continue
SkipToolCall(i) ==
    /\ pc[i] = "enforce"
    /\ pending[i] # <<>>
    /\ AlreadyEnforced(Head(pending[i]), enforced_tool_call_ids)
    /\ pending' = [pending EXCEPT ![i] = Tail(@)]
    /\ UNCHANGED <<enforced_tool_call_ids, soft_block, pc, messages, pulled,
                   forwarded, requests, last_outcome, soft_block_calls>>
    /\ UNCHANGED mp_vars
    /\ UNCHANGED <<ss_vars, ext_vars>>

\* tool-call loop: build the intent, call enforcement, act on the answer
EnforceToolCall(i, outcome) ==
    /\ pc[i] = "enforce"
    /\ pending[i] # <<>>
    /\ ~AlreadyEnforced(Head(pending[i]), enforced_tool_call_ids)
    /\ requests' = [requests EXCEPT ![i] = Append(@, Head(pending[i]))]
    /\ last_outcome' = [last_outcome EXCEPT ![i] = outcome]
    /\ soft_block_calls' =
          IF CallsSoftBlockHandler(outcome, soft_block)
          THEN [soft_block_calls EXCEPT ![i] = Append(@, Head(pending[i]))]
          ELSE soft_block_calls
    /\ IF Disposition(outcome, soft_block) = "raise"
       THEN /\ pc' = [pc EXCEPT ![i] = "raised"]
            /\ UNCHANGED <<enforced_tool_call_ids, pending>>
       ELSE /\ enforced_tool_call_ids' = MarkEnforced(Head(pending[i]), enforced_tool_call_ids)
            /\ pending' = [pending EXCEPT ![i] = Tail(@)]
            /\ UNCHANGED pc
    /\ UNCHANGED <<soft_block, messages, pulled, forwarded>>
    /\ UNCHANGED mp_vars
    /\ UNCHANGED <<ss_vars, ext_vars>>

\* _enforce_tool_calls returned: yield the state (stream, astream) or keep
\* it as final_state (invoke, ainvoke)
Forward(i) ==
    /\ pc[i] = "enforce"
    /\ pending[i] = <<>>
    /\ forwarded' = [forwarded EXCEPT ![i] = @ + 1]
    /\ pc' = [pc EXCEPT ![i] = "pull"]
    /\ UNCHANGED <<enforced_tool_call_ids, soft_block, messages, pending, pulled,
                   requests, last_outcome, soft_block_calls>>
    /\ UNCHANGED mp_vars
    /\ UNCHANGED <<ss_vars, ext_vars>>

\* the graph's stream is exhausted: the invocation returns
Finish(i) ==
    /\ pc[i] = "pull"
    /\ MayRun(i)
    /\ pc' = [pc EXCEPT ![i] = "done"]
    /\ UNCHANGED <<enforced_tool_call_ids, soft_block, messages, pending, pulled,
                   forwarded, requests, last_outcome, soft_block_calls>>
    /\ UNCHANGED mp_vars
    /\ UNCHANGED <<ss_vars, ext_vars>>

ProxyInit ==
    /\ enforced_tool_call_ids = {}
    /\ pc = [i \in Invocations |-> "idle"]
    /\ messages = [i \in Invocations |-> <<>>]
    /\ pending = [i \in Invocations |-> <<>>]
    /\ pulled = [i \in Invocations |-> 0]
    /\ forwarded = [i \in Invocations |-> 0]
    /\ requests = [i \in Invocations |-> <<>>]
    /\ last_outcome = [i \in Invocations |-> None]
    /\ soft_block_calls = [i \in Invocations |-> <<>>]

ProxyNext ==
    \/ \E i \in Invocations : invoke(i)
    \/ \E i \in Invocations : stream(i)
    \/ \E i \in Invocations : ainvoke(i)
    \/ \E i \in Invocations : astream(i)
    \/ \E i \in Invocations, st \in GraphStates : Pull(i, st)
    \/ \E i \in Invocations : SkipToolCall(i)
    \/ \E i \in Invocations, outcome \in EnforceOutcomes : EnforceToolCall(i, outcome)
    \/ \E i \in Invocations : Forward(i)
    \/ \E i \in Invocations : Finish(i)

(***************************************************************************)
(* Part III.  Management Plane: session store                              *)
(*            (management_plane/app/services/session_store.py)             *)
(***************************************************************************)

\* Bound: how many write_call and compute_and_update_drift calls are started
\* in one behaviour (their request ids are 1..MaxCalls).
MaxCalls == 3

\* Bound: how often the clock advances in one behaviour.
MaxTicks == 2

\* stale_cutoff = now - 1800 (30 minutes), in seconds
STALE_SECONDS == 1800

\* old_cutoff = now - 86400 (24 hours), in seconds
OLD_SECONDS == 86400

\* By how much the clock advances in one step: by one of the two cutoffs.
\* Shorter intervals change nothing the sweep can see.
TickSteps == {STALE_SECONDS, OLD_SECONDS}

\* "agent_a" names the agent whose call is started first
Agents == {"agent_a", "agent_b"}

FirstSeen(agent_id) == started = 0 => agent_id = "agent_a"

\* a BLOB column that is NULL
NULL == "NULL"

\* Intent vectors, named; Dot is np.dot of two of them in hundredths. Stored
\* vectors are float32 and only approximately normalised, so a dot product
\* may exceed 1.
Vectors == {"v1", "v2"}

Dot(iv, cv) ==
    CASE iv = "v1" /\ cv = "v1" -> 100
      [] iv = "v2" /\ cv = "v2" -> 104
      [] OTHER -> 0 - 20

\* mutant: the per-call drift is not clamped at 0
PerCallDrift_Unclamped(iv, cv) == 100 - Dot(iv, cv)

\* drift = max(0.0, float(1.0 - np.dot(iv, cv))), in hundredths
PerCallDrift(iv, cv) ==
    IF 100 - Dot(iv, cv) > 0 THEN 100 - Dot(iv, cv) ELSE 0

\* mutant: call_count is left at its schema default
NewRow_DefaultCount(request_id, ts) ==
    [action_history |-> <<request_id>>,
     call_count |-> 0,
     last_seen_at |-> ts,
     created_at |-> ts,
     initial_vector |-> NULL,
     cumulative_drift |-> 0,
     last_vector |-> NULL]

\* the row write_call INSERTs: the named columns, the others at their
\* schema defaults; ts is the time write_call took at its start
NewRow(request_id, ts) ==
    [action_history |-> <<request_id>>,
     call_count |-> 1,
     last_seen_at |-> ts,
     created_at |-> ts,
     initial_vector |-> NULL,
     cumulative_drift |-> 0,
     last_vector |-> NULL]

\* mutant: the counter is incremented in SQL while the history is still
\* written from the values read
UpdateRow_CountInSql(row, read, request_id, ts) ==
    [row EXCEPT !.action_history = Append(read.action_history, request_id),
                !.call_count = row.call_count + 1,
                !.last_seen_at = ts]

\* the row after write_call's UPDATE: history and counter computed from the
\* values its SELECT read, the other columns untouched
UpdateRow(row, read, request_id, ts) ==
    [row EXCEPT !.action_history = Append(read.action_history, request_id),
                !.call_count = read.call_count + 1,
                !.last_seen_at = ts]

\* mutant: only the idle cutoff is tested (a session that stays active is
\* never removed)
Expired_IdleOnly(row, t) == row.last_seen_at < t - STALE_SECONDS

\* WHERE last_seen_at < stale_cutoff OR created_at < old_cutoff
Expired(row, t) ==
    row.last_seen_at < t - STALE_SECONDS \/ row.created_at < t - OLD_SECONDS

\* mutant: the UPDATE has no "AND initial_vector IS NULL"
SetInitialVector_Unconditional(row, vector) ==
    [row EXCEPT !.initial_vector = vector]

\* UPDATE ... SET initial_vector = ? WHERE ... AND initial_vector IS NULL
SetInitialVector(row, vector) ==
    IF row.initial_vector = NULL THEN [row EXCEPT !.initial_vector = vector] ELSE row

\* mutant: cumulative_drift is overwritten with the per-call drift
AddDrift_Overwrite(row, drift, cv, t) ==
    [row EXCEPT !.cumulative_drift = drift, !.last_vector = cv, !.last_seen_at = t]

\* UPDATE ... SET cumulative_drift = cumulative_drift + ?, last_vector = ?,
\* last_seen_at = ?
AddDrift(row, drift, cv, t) ==
    [row EXCEPT !.cumulative_drift = @ + drift, !.last_vector = cv, !.last_seen_at = t]

\* agent ids that have a row
Live == {a \in Agents : agent_sessions[a] # <<>>}

\* the clock advances by a cutoff; no call stays between its SELECT and its
\* write that long (a connection waits 5 s for a lock)
Tick(d) ==
    /\ ticks < MaxTicks
    /\ DOMAIN inflight = {}
    /\ now' = now + d
    /\ ticks' = ticks + 1
    /\ UNCHANGED <<agent_sessions, started, inflight, drift_returned, writes_returned, swept>>
    /\ last_op' = None
    /\ last_deleted' = 0
    /\ UNCHANGED init_missed
    /\ UNCHANGED <<mp_vars, proxy_vars, ext_vars>>

\* write_call, first half: now = time.time(), new_entry, and the SELECT of
\* action_history and call_count (on a connection in autocommit mode: the
\* read is its own transaction)
write_call_select(agent_id) ==
    /\ started < MaxCalls
    /\ FirstSeen(agent_id)
    /\ started' = started + 1
    /\ inflight' = [r \in DOMAIN inflight \cup {started + 1} |->
                      IF r = started + 1
                      THEN [op |-> "write_call", agent_id |-> agent_id, ts |-> now,
                            row |-> IF agent_sessions[agent_id] = <<>> THEN <<>>
                                    ELSE <<[action_history |-> agent_sessions[agent_id][1].action_history,
                                            call_count |-> agent_sessions[agent_id][1].call_count]>>,
                            initial_vector |-> NULL, current_vector |-> NULL]
                      ELSE inflight[r]]
    /\ last_op' = None
    /\ last_deleted' = 0
    /\ UNCHANGED init_missed
    /\ UNCHANGED <<agent_sessions, now, ticks, drift_returned, writes_returned, swept>>
    /\ UNCHANGED <<mp_vars, proxy_vars, ext_vars>>

\* write_call, second half: INSERT when the SELECT found no row (a row that
\* was inserted meanwhile violates the primary key: the exception is logged
\* and the call returns), else UPDATE with the history and the count that
\* were read (no row matches if it was deleted meanwhile); commit
write_call_commit(request_id) ==
    /\ request_id \in DOMAIN inflight
    /\ inflight[request_id].op = "write_call"
    /\ LET c == inflight[request_id]
           a == c.agent_id
       IN /\ IF c.row = <<>>
             THEN IF agent_sessions[a] = <<>>
                  THEN /\ agent_sessions' = [agent_sessions EXCEPT ![a] = <<NewRow(request_id, c.ts)>>]
                       /\ drift_returned' = [drift_returned EXCEPT ![a] = 0]
                  ELSE UNCHANGED <<agent_sessions, drift_returned>>
             ELSE /\ IF agent_sessions[a] = <<>>
                     THEN UNCHANGED agent_sessions
                     ELSE agent_sessions' =
                            [agent_sessions EXCEPT ![a] =
                               <<UpdateRow(@[1], c.row[1], request_id, c.ts)>>]
                  /\ UNCHANGED drift_returned
          /\ writes_returned' = [writes_returned EXCEPT ![a] = @ \cup {request_id}]
    /\ inflight' = [r \in DOMAIN inflight \ {request_id} |-> inflight[r]]
    /\ last_op' = None
    /\ last_deleted' = 0
    /\ UNCHANGED init_missed
    /\ UNCHANGED <<now, ticks, started, swept>>
    /\ UNCHANGED <<mp_vars, proxy_vars, ext_vars>>

\* cleanup_expired: one DELETE statement, returns cursor.rowcount
cleanup_expired ==
    /\ agent_sessions' = [a \in Agents |->
                            IF agent_sessions[a] # <<>> /\ Expired(agent_sessions[a][1], now)
                            THEN <<>> ELSE agent_sessions[a]]
    /\ last_deleted' = Cardinality({a \in Live : Expired(agent_sessions[a][1], now)})
    /\ UNCHANGED init_missed
    /\ swept' = [a \in Agents |->
                    IF agent_sessions[a] # <<>> /\ Expired(agent_sessions[a][1], now)
                    THEN swept[a] \cup Range(agent_sessions[a][1].action_history)
                    ELSE swept[a]]
    /\ last_op' = "cleanup_expired"
    /\ UNCHANGED <<now, ticks, started, inflight, drift_returned, writes_returned>>
    /\ UNCHANGED <<mp_vars, proxy_vars, ext_vars>>

\* mutant: only a missing row ends the call early
ReturnsEarly_OnlyWithoutRow(row) == row = <<>>

\* "if row is None or row['initial_vector'] is None: return 0.0"
ReturnsEarly(row) == row = <<>> \/ row[1].initial_vector = NULL

\* initialize_session_vector: one conditional UPDATE (observe: whether the
\* call is recorded in init_missed)
initialize_session_vector(agent_id, vector, observe) ==
    /\ agent_sessions' = [agent_sessions EXCEPT ![agent_id] =
                            IF @ = <<>> THEN @ ELSE <<SetInitialVector(@[1], vector)>>]
    /\ last_op' = None
    /\ last_deleted' = 0
    /\ init_missed' = IF observe
                       THEN [init_missed EXCEPT ![agent_id] =
                               IF agent_sessions[agent_id] = <<>> THEN "missed" ELSE "no"]
                       ELSE init_missed
    /\ UNCHANGED <<now, ticks, started, inflight, drift_returned, writes_returned, swept>>
    /\ UNCHANGED <<mp_vars, proxy_vars, ext_vars>>

\* compute_and_update_drift, first half: the SELECT of initial_vector; with
\* no row or a NULL baseline the call returns 0.0 at once (observe: whether
\* that is recorded in init_missed)
compute_and_update_drift_select(agent_id, current_vector, observe) ==
    /\ started < MaxCalls
    /\ FirstSeen(agent_id)
    /\ started' = started + 1
    /\ IF ReturnsEarly(agent_sessions[agent_id])
       THEN /\ UNCHANGED inflight
            /\ last_op' = None
            /\ last_deleted' = 0
            /\ init_missed' = IF observe
                               THEN [init_missed EXCEPT ![agent_id] =
                                       IF @ = "missed" /\ agent_sessions[agent_id] # <<>>
                                       THEN "zero" ELSE @]
                               ELSE init_missed
       ELSE /\ inflight' = [r \in DOMAIN inflight \cup {started + 1} |->
                              IF r = started + 1
                              THEN [op |-> "compute_and_update_drift", agent_id |-> agent_id,
                                    ts |-> now, row |-> <<>>,
                                    initial_vector |-> agent_sessions[agent_id][1].initial_vector,
                                    current_vector |-> current_vector]
                              ELSE inflight[r]]
            /\ last_op' = None
            /\ last_deleted' = 0
            /\ UNCHANGED init_missed
    /\ UNCHANGED <<agent_sessions, now, ticks, drift_returned, writes_returned, swept>>
    /\ UNCHANGED <<mp_vars, proxy_vars, ext_vars>>

\* compute_and_update_drift, second half: the drift against the baseline
\* that was read, the UPDATE (no row matches if it was deleted meanwhile),
\* commit, return drift
compute_and_update_drift_update(request_id) ==
    /\ request_id \in DOMAIN inflight
    /\ inflight[request_id].op = "compute_and_update_drift"
    /\ LET c == inflight[request_id]
           a == c.agent_id
           drift == PerCallDrift(c.initial_vector, c.current_vector)
       IN /\ agent_sessions' = [agent_sessions EXCEPT ![a] =
                                  IF @ = <<>> THEN @
                                  ELSE <<AddDrift(@[1], drift, c.current_vector, now)>>]
          /\ drift_returned' = [drift_returned EXCEPT ![a] = @ + drift]
    /\ inflight' = [r \in DOMAIN inflight \ {request_id} |-> inflight[r]]
    /\ last_op' = None
    /\ last_deleted' = 0
    /\ UNCHANGED init_missed
    /\ UNCHANGED <<now, ticks, started, writes_returned, swept>>
    /\ UNCHANGED <<mp_vars, proxy_vars, ext_vars>>

SessionInit ==
    /\ agent_sessions = [a \in Agents |-> <<>>]
    /\ now = 0
    /\ ticks = 0
    /\ started = 0
    /\ inflight = <<>>
    /\ drift_returned = [a \in Agents |-> 0]
    /\ writes_returned = [a \in Agents |-> {}]
    /\ swept = [a \in Agents |-> {}]
    /\ last_op = None
    /\ last_deleted = 0
    /\ init_missed = [a \in Agents |-> "no"]

SessionNext ==
    \/ \E d \in TickSteps : Tick(d)
    \/ \E a \in Agents : write_call_select(a)
    \/ \E r \in DOMAIN inflight : write_call_commit(r)
    \/ cleanup_expired
    \/ \E a \in Agents, v \in Vectors : initialize_session_vector(a, v, FALSE)
    \/ \E a \in Agents, v \in Vectors : compute_and_update_drift_select(a, v, FALSE)
    \/ \E r \in DOMAIN inflight : compute_and_update_drift_update(r)

\* the same callers with the calls that find no row or no baseline
\* recorded, and the sweep made after an idle interval
BaselineNext ==
    \/ Tick(STALE_SECONDS)
    \/ \E a \in Agents : write_call_select(a)
    \/ \E r \in DOMAIN inflight : write_call_commit(r)
    \/ cleanup_expired
    \/ \E a \in Agents, v \in Vectors : initialize_session_vector(a, v, TRUE)
    \/ \E a \in Agents, v \in Vectors : compute_and_update_drift_select(a, v, TRUE)
    \/ \E r \in DOMAIN inflight : compute_and_update_drift_update(r)

(***************************************************************************)
(* Part IV: evaluate_applicability as a function of intent, boundary and   *)
(* environment (management_plane/app/applicability.py)                     *)
(***************************************************************************)
\* constraints blocks that make every rule match, mismatch and abstain
ApConstraints ==
    {[actions |-> {a}, actor_types |-> {t}, types |-> {r}, locations |-> l,
      pii |-> p, volume |-> v, domains |-> d, names |-> n] :
        a \in {"read", "delete"}, t \in {"user", "agent"}, r \in {"database", "api"},
        l \in {{}, {"cloud"}}, p \in {None, "true"}, v \in {None, "bulk"},
        d \in {{}, {"database"}}, n \in {{}, {"users_db"}}}

\* the intents of /intents/compare and one that leaves every optional field out
ApIntents ==
    Intents \cup
    { [tenant_id |-> "tenant_a", action |-> "read", actor_type |-> "user",
       resource_type |-> "database", location |-> None, name |-> None,
       pii |-> None, volume |-> None] }

\* values of APPLICABILITY_MODE
EnvModes == {Unset, <<"strict">>, <<" STRICT ">>, <<"Soft">>, <<"lenient">>}

\* values of APPLICABILITY_MIN_SCORE, in percent
EnvMinScores ==
    {Unset, <<[parses |-> FALSE, value |-> 0]>>} \cup
    {<<[parses |-> TRUE, value |-> x]>> : x \in {0 - 50, 0, 25, 50, 75, 100, 150}}

\* the call of evaluate_applicability under observation; mode and min_score
\* are its locals
EvaluateApplicability(intent, c, env_mode, env_min) ==
    LET b == Boundary("b", intent.tenant_id, "active", "mandatory", "deny", c)
    IN /\ ap_eval' = <<[intent |-> intent, boundary |-> b,
                        env_mode |-> env_mode, env_min |-> env_min,
                        mode |-> get_mode(env_mode),
                        min_score |-> get_min_score(env_min),
                        result |-> evaluate_applicability_env(intent, b, env_mode, env_min)]>>
       /\ UNCHANGED <<mp_vars, proxy_vars, ss_vars, pol_vars, buf_vars, dp_vars>>

ApInit == ap_eval = <<>>

ApNext ==
    /\ ap_eval = <<>>
    /\ \E intent \in ApIntents, c \in ApConstraints, m \in EnvModes, x \in EnvMinScores :
          EvaluateApplicability(intent, c, m, x)

(***************************************************************************)
(* Part V: policy rows, anchor payloads and the startup sync               *)
(* (services/policies.py, scripts/seed_policies_v2.py, rule_installer.py,  *)
(* main.py)                                                                *)
(***************************************************************************)
PolicyKeys == {<<"tenant_a", "policy_1">>, <<"tenant_a", "policy_2">>,
               <<"tenant_b", "policy_1">>}

PolicyStatuses == {"active", "disabled"}

\* chroma_client.upsert_rule_payload: stores the payload under the key in
\* one call, replacing what was there
upsert_rule_payload(payloads, k, payload) == [payloads EXCEPT ![k] = <<payload>>]

\* chroma_client.fetch_rule_payload: the stored payload or nothing
fetch_rule_payload(payloads, k) == payloads[k]

\* all orders in which a SELECT without ORDER BY may return the keys
Orders(keys) ==
    {q \in [1..Cardinality(keys) -> keys] : \A i, j \in DOMAIN q : i # j => q[i] # q[j]}

\* SELECT tenant_id, policy_id FROM policies_v2 WHERE status = 'active'
ActiveRows(table) ==
    {k \in PolicyKeys : table[k] # <<>> /\ Head(table[k]).status = "active"}

\* seed_policies, first half: fetch_policy_record, then update_policy_record
\* or create_policy_record, each committing the row
seed_policy_record(k, st) ==
    /\ seeding = <<>>
    /\ policies_v2' = [policies_v2 EXCEPT ![k] = <<[status |-> st]>>]
    /\ seeding' = <<k>>
    /\ UNCHANGED <<rule_payloads, sync_vars>>
    /\ UNCHANGED <<mp_vars, proxy_vars, ss_vars, ap_vars, buf_vars, dp_vars>>

\* seed_policies, second half: encode, then upsert_policy_payload
seed_policy_payload ==
    /\ seeding # <<>>
    /\ rule_payloads' = upsert_rule_payload(rule_payloads, Head(seeding),
                                            [boundary |-> Head(seeding)])
    /\ seeding' = <<>>
    /\ UNCHANGED <<policies_v2, sync_vars>>
    /\ UNCHANGED <<mp_vars, proxy_vars, ss_vars, ap_vars, buf_vars, dp_vars>>

\* delete_policy_record: one DELETE, committed
delete_policy_record(k) ==
    /\ policies_v2[k] # <<>>
    /\ policies_v2' = [policies_v2 EXCEPT ![k] = <<>>]
    /\ UNCHANGED <<rule_payloads, seeding, sync_vars>>
    /\ UNCHANGED <<mp_vars, proxy_vars, ss_vars, ap_vars, buf_vars, dp_vars>>

\* delete_policy_payload: collection.delete(ids=[policy_id])
delete_policy_payload(k) ==
    /\ rule_payloads[k] # <<>>
    /\ rule_payloads' = [rule_payloads EXCEPT ![k] = <<>>]
    /\ UNCHANGED <<policies_v2, seeding, sync_vars>>
    /\ UNCHANGED <<mp_vars, proxy_vars, ss_vars, ap_vars, buf_vars, dp_vars>>

StoreNext ==
    \/ \E k \in PolicyKeys, st \in PolicyStatuses : seed_policy_record(k, st)
    \/ seed_policy_payload
    \/ \E k \in PolicyKeys : delete_policy_record(k)
    \/ \E k \in PolicyKeys : delete_policy_payload(k)

StoreInit ==
    /\ policies_v2 = [k \in PolicyKeys |-> <<>>]
    /\ rule_payloads = [k \in PolicyKeys |-> <<>>]
    /\ seeding = <<>>

(* ---- main.py lifespan and rule_installer.py startup sync -------------- *)
Bump(f, k) == [f EXCEPT ![k] = @ + 1]

\* mutant: only DataPlaneError is caught inside the loop
OnRowFailure_CatchDataPlaneErrorOnly(exc) ==
    IF exc = "DataPlaneError" THEN "continue" ELSE "raise"

\* the two except clauses of the loop body: log, count, go on with the next row
OnRowFailure(exc) == "continue"

\* lifespan reaches the startup sync
lifespan_call_sync ==
    /\ lifespan_pc = "startup"
    /\ lifespan_pc' = "syncing"
    /\ sync_pc' = "setup"
    /\ UNCHANGED <<cleanup_task, sync_rows, sync_snapshot, sync_seen, install_attempts,
                   synced, errors>>
    /\ UNCHANGED <<mp_vars, proxy_vars, ss_vars, ap_vars, store_vars, buf_vars, dp_vars>>

\* imports and path resolution before the query; an exception here leaves
\* the function
sync_setup(ok) ==
    /\ sync_pc = "setup"
    /\ sync_pc' = IF ok THEN "query" ELSE "raised"
    /\ UNCHANGED <<lifespan_pc, cleanup_task, sync_rows, sync_snapshot, sync_seen,
                   install_attempts, synced, errors>>
    /\ UNCHANGED <<mp_vars, proxy_vars, ss_vars, ap_vars, store_vars, buf_vars, dp_vars>>

\* the SELECT of the active rows; a failing query and an empty result return
sync_query(ok) ==
    /\ sync_pc = "query"
    /\ IF ok
       THEN /\ sync_rows' \in Orders(ActiveRows(policies_v2))
            /\ sync_snapshot' = <<ActiveRows(policies_v2)>>
            /\ sync_pc' = IF ActiveRows(policies_v2) = {} THEN "returned" ELSE "loop"
       ELSE /\ sync_pc' = "returned"
            /\ UNCHANGED <<sync_rows, sync_snapshot>>
    /\ UNCHANGED <<lifespan_pc, cleanup_task, sync_seen, install_attempts, synced, errors>>
    /\ UNCHANGED <<mp_vars, proxy_vars, ss_vars, ap_vars, store_vars, buf_vars, dp_vars>>

\* one iteration of the loop over the rows
sync_row(fetch_ok, install) ==
    /\ sync_pc = "loop"
    /\ LET k == Head(sync_rows)
           payload == fetch_rule_payload(rule_payloads, k)
           attempted == fetch_ok /\ payload # <<>>
           failure == IF ~fetch_ok THEN "Exception"
                      ELSE IF attempted /\ install # "ok" THEN install
                      ELSE "none"
           raised == failure # "none" /\ OnRowFailure(failure) = "raise"
       IN /\ sync_seen' = [sync_seen EXCEPT ![k] =
                               IF ~fetch_ok THEN "fetch_failed"
                               ELSE IF payload = <<>> THEN "absent" ELSE "payload"]
          /\ install_attempts' = IF attempted THEN Bump(install_attempts, k)
                                 ELSE install_attempts
          /\ synced' = IF attempted /\ install = "ok" THEN synced + 1 ELSE synced
          /\ errors' = IF raised \/ (attempted /\ install = "ok") THEN errors
                       ELSE errors + 1
          /\ sync_rows' = IF raised THEN <<>> ELSE Tail(sync_rows)
          /\ sync_pc' = IF raised THEN "raised"
                        ELSE IF Tail(sync_rows) = <<>> THEN "returned" ELSE "loop"
    /\ UNCHANGED <<lifespan_pc, cleanup_task, sync_snapshot>>
    /\ UNCHANGED <<mp_vars, proxy_vars, ss_vars, ap_vars, store_vars, buf_vars, dp_vars>>

\* lifespan after the sync returned or raised: the exception is logged, the
\* cleanup task is created, the application serves
lifespan_start_cleanup ==
    /\ lifespan_pc = "syncing"
    /\ sync_pc \in {"returned", "raised"}
    /\ lifespan_pc' = "ready"
    /\ cleanup_task' = TRUE
    /\ UNCHANGED <<sync_pc, sync_rows, sync_snapshot, sync_seen, install_attempts,
                   synced, errors>>
    /\ UNCHANGED <<mp_vars, proxy_vars, ss_vars, ap_vars, store_vars, buf_vars, dp_vars>>

InstallOutcomes == {"ok", "DataPlaneError", "Exception"}

SyncNext ==
    \/ lifespan_call_sync
    \/ \E ok \in BOOLEAN : sync_setup(ok)
    \/ \E ok \in BOOLEAN : sync_query(ok)
    \/ \E ok \in BOOLEAN, install \in InstallOutcomes : sync_row(ok, install)
    \/ lifespan_start_cleanup

SyncInit ==
    /\ lifespan_pc = "startup"
    /\ cleanup_task = FALSE
    /\ sync_pc = "idle"
    /\ sync_rows = <<>>
    /\ sync_snapshot = <<>>
    /\ sync_seen = [k \in PolicyKeys |-> "none"]
    /\ install_attempts = [k \in PolicyKeys |-> 0]
    /\ synced = 0
    /\ errors = 0

\* writers and the starting application side by side
PolicyNext == StoreNext \/ SyncNext

\* the application starting on a store nobody writes meanwhile
StartupNext ==
    \/ lifespan_pc = "startup" /\ StoreNext
    \/ SyncNext

(***************************************************************************)
(* Part VI: EventBuffer (sdk/python/tupl/buffer.py)                        *)
(***************************************************************************)
\* Bound: how many add() calls are made.
MaxAdds == 3

\* the max_size the buffer is constructed with
max_size == 2

AppThreads == {"t1", "t2"}
TimerThread == "timer"
BufThreads == AppThreads \cup {TimerThread}

\* what a flush handler does: return, raise, or call add / flush / len on
\* the buffer it is flushing
HandlerOutcomes == {"return", "raise", "add", "flush", "len"}

\* mutant: the lock is re-entrant
CanAcquire_Reentrant(t, holder) == holder = <<>> \/ holder = <<t>>

\* threading.Lock: acquire proceeds only when the lock is unlocked, whoever
\* holds it
CanAcquire(t, holder) == holder = <<>>

\* mutant: stop() does not flush
NeedsFlush_NotOnStop(op, buf) ==
    CASE op = "add" -> Len(buf) >= max_size
      [] op \in {"flush", "periodic"} -> buf # <<>>
      [] OTHER -> FALSE

\* whether the method, holding the lock, calls on_flush: add when the buffer
\* is full, flush / stop / _periodic_flush when it is not empty
NeedsFlush(op, buf) ==
    CASE op = "add" -> Len(buf) >= max_size
      [] op \in {"flush", "stop", "periodic"} -> buf # <<>>
      [] OTHER -> FALSE

\* mutant: an exception of on_flush leaves _periodic_flush
AfterCall_HandlerErrorEscapes(op, outcome) ==
    CASE op = "periodic" -> IF outcome = "raise" THEN "dead" ELSE "schedule"
      [] op = "stop" -> "stopped"
      [] OTHER -> "idle"

\* where the thread goes once the lock is released: _periodic_flush goes on
\* to _schedule_flush (an exception of on_flush is caught in _flush_unsafe),
\* stop returns, the other methods return to their caller
AfterCall(op, outcome) ==
    CASE op = "periodic" -> "schedule"
      [] op = "stop" -> "stopped"
      [] OTHER -> "idle"

\* add(item) is called
call_add(t) ==
    /\ t \in AppThreads
    /\ buf_pc[t] = "idle"
    /\ n_added < MaxAdds
    /\ n_added' = n_added + 1
    /\ buf_pc' = [buf_pc EXCEPT ![t] = "acquiring"]
    /\ buf_op' = [buf_op EXCEPT ![t] = "add"]
    /\ buf_item' = [buf_item EXCEPT ![t] = n_added + 1]
    /\ late_add' = (late_add \/ ~running)
    /\ UNCHANGED <<ev_buffer, lock_holder, running, buf_nested, added, flushed>>
    /\ UNCHANGED <<mp_vars, proxy_vars, ss_vars, ap_vars, pol_vars, dp_vars>>

\* flush() or len() is called
call_method(t, op) ==
    /\ t \in AppThreads
    /\ op \in {"flush", "len"}
    /\ buf_pc[t] = "idle"
    /\ buf_pc' = [buf_pc EXCEPT ![t] = "acquiring"]
    /\ buf_op' = [buf_op EXCEPT ![t] = op]
    /\ UNCHANGED <<ev_buffer, lock_holder, running, buf_item, buf_nested, n_added, added,
                   flushed, late_add>>
    /\ UNCHANGED <<mp_vars, proxy_vars, ss_vars, ap_vars, pol_vars, dp_vars>>

\* stop() is called: _running = False
call_stop(t) ==
    /\ t \in AppThreads
    /\ buf_pc[t] = "idle"
    /\ running
    /\ running' = FALSE
    /\ buf_pc' = [buf_pc EXCEPT ![t] = "stop_cancel"]
    /\ buf_op' = [buf_op EXCEPT ![t] = "stop"]
    /\ late_add' = (late_add \/ \E u \in BufThreads :
                                   /\ buf_pc[u] = "acquiring"
                                   /\ "add" \in {buf_op[u], buf_nested[u]})
    /\ UNCHANGED <<ev_buffer, lock_holder, buf_item, buf_nested, n_added, added, flushed>>
    /\ UNCHANGED <<mp_vars, proxy_vars, ss_vars, ap_vars, pol_vars, dp_vars>>

\* stop(): the timer is cancelled (a timer that has not fired yet never
\* will), then flush() is called
stop_cancel(t) ==
    /\ buf_pc[t] = "stop_cancel"
    /\ buf_pc' = [buf_pc EXCEPT ![t] = "acquiring",
                                ![TimerThread] = IF @ = "armed" THEN "dead" ELSE @]
    /\ UNCHANGED <<ev_buffer, lock_holder, running, buf_op, buf_item, buf_nested, n_added,
                   added, flushed, late_add>>
    /\ UNCHANGED <<mp_vars, proxy_vars, ss_vars, ap_vars, pol_vars, dp_vars>>

\* "with self._lock:" and the body under it, up to the call of on_flush or
\* the release of the lock
enter(t) ==
    /\ buf_pc[t] = "acquiring"
    /\ CanAcquire(t, lock_holder)
    /\ LET inner == buf_nested[t] # "none"
           op == IF inner THEN buf_nested[t] ELSE buf_op[t]
           buf == IF op = "add" THEN Append(ev_buffer, buf_item[t]) ELSE ev_buffer
           flush == NeedsFlush(op, buf)
           next == IF inner \/ flush THEN "handler" ELSE AfterCall(op, "return")
       IN /\ ev_buffer' = IF flush THEN <<>> ELSE buf
          /\ added' = IF op = "add" THEN Append(added, buf_item[t]) ELSE added
          /\ flushed' = IF flush THEN Append(flushed, buf) ELSE flushed
          /\ buf_pc' = [buf_pc EXCEPT ![t] = next]
          /\ buf_op' = [buf_op EXCEPT ![t] = IF next = "idle" THEN "none" ELSE @]
          /\ lock_holder' = IF next = "handler" THEN <<t>> ELSE <<>>
          /\ buf_nested' = [buf_nested EXCEPT ![t] = "none"]
    /\ UNCHANGED <<running, buf_item, n_added, late_add>>
    /\ UNCHANGED <<mp_vars, proxy_vars, ss_vars, ap_vars, pol_vars, dp_vars>>

\* on_flush(items) runs and ends: it returns or raises (the lock is released
\* and the method ends), or it calls a method of the buffer
handler_finish(t, outcome) ==
    /\ buf_pc[t] = "handler"
    /\ outcome = "add" => n_added < MaxAdds
    /\ IF outcome \in {"return", "raise"}
       THEN /\ lock_holder' = <<>>
            /\ buf_pc' = [buf_pc EXCEPT ![t] = AfterCall(buf_op[t], outcome)]
            /\ buf_op' = [buf_op EXCEPT ![t] =
                              IF AfterCall(buf_op[t], outcome) = "idle" THEN "none" ELSE @]
            /\ UNCHANGED <<buf_nested, buf_item, n_added, late_add>>
       ELSE /\ buf_pc' = [buf_pc EXCEPT ![t] = "acquiring"]
            /\ buf_nested' = [buf_nested EXCEPT ![t] = outcome]
            /\ buf_item' = [buf_item EXCEPT ![t] = IF outcome = "add" THEN n_added + 1 ELSE @]
            /\ n_added' = IF outcome = "add" THEN n_added + 1 ELSE n_added
            /\ late_add' = (late_add \/ (outcome = "add" /\ ~running))
            /\ UNCHANGED <<lock_holder, buf_op>>
    /\ UNCHANGED <<ev_buffer, running, added, flushed>>
    /\ UNCHANGED <<mp_vars, proxy_vars, ss_vars, ap_vars, pol_vars, dp_vars>>

\* the interval has elapsed: the timer thread starts _periodic_flush
timer_fire ==
    /\ buf_pc[TimerThread] = "armed"
    /\ buf_pc' = [buf_pc EXCEPT ![TimerThread] = "check"]
    /\ UNCHANGED <<ev_buffer, lock_holder, running, buf_op, buf_item, buf_nested, n_added,
                   added, flushed, late_add>>
    /\ UNCHANGED <<mp_vars, proxy_vars, ss_vars, ap_vars, pol_vars, dp_vars>>

\* _periodic_flush: "if not self._running: return"
periodic_check ==
    /\ buf_pc[TimerThread] = "check"
    /\ buf_pc' = [buf_pc EXCEPT ![TimerThread] = IF running THEN "acquiring" ELSE "dead"]
    /\ buf_op' = [buf_op EXCEPT ![TimerThread] = IF running THEN "periodic" ELSE "none"]
    /\ UNCHANGED <<ev_buffer, lock_holder, running, buf_item, buf_nested, n_added, added,
                   flushed, late_add>>
    /\ UNCHANGED <<mp_vars, proxy_vars, ss_vars, ap_vars, pol_vars, dp_vars>>

\* _schedule_flush: "if not self._running: return"
schedule_check ==
    /\ buf_pc[TimerThread] = "schedule"
    /\ buf_pc' = [buf_pc EXCEPT ![TimerThread] = IF running THEN "arm" ELSE "dead"]
    /\ buf_op' = [buf_op EXCEPT ![TimerThread] = "none"]
    /\ UNCHANGED <<ev_buffer, lock_holder, running, buf_item, buf_nested, n_added, added,
                   flushed, late_add>>
    /\ UNCHANGED <<mp_vars, proxy_vars, ss_vars, ap_vars, pol_vars, dp_vars>>

\* _schedule_flush: the old timer is cancelled and a new one started. When
\* stop() clears self._timer between the test "if self._timer" and the
\* cancel(), the thread ends with an exception instead.
schedule_arm(dies) ==
    /\ buf_pc[TimerThread] = "arm"
    /\ dies => ~running
    /\ buf_pc' = [buf_pc EXCEPT ![TimerThread] = IF dies THEN "dead" ELSE "armed"]
    /\ UNCHANGED <<ev_buffer, lock_holder, running, buf_op, buf_item, buf_nested, n_added,
                   added, flushed, late_add>>
    /\ UNCHANGED <<mp_vars, proxy_vars, ss_vars, ap_vars, pol_vars, dp_vars>>

BufferInit ==
    /\ ev_buffer = <<>>
    /\ lock_holder = <<>>
    /\ running = TRUE
    /\ buf_pc = [t \in BufThreads |-> IF t = TimerThread THEN "armed" ELSE "idle"]
    /\ buf_op = [t \in BufThreads |-> "none"]
    /\ buf_item = [t \in BufThreads |-> 0]
    /\ buf_nested = [t \in BufThreads |-> "none"]
    /\ n_added = 0
    /\ added = <<>>
    /\ flushed = <<>>
    /\ late_add = FALSE

TimerNext ==
    \/ timer_fire
    \/ periodic_check
    \/ schedule_check
    \/ \E dies \in BOOLEAN : schedule_arm(dies)

BufferNext ==
    \/ \E t \in AppThreads : call_add(t)
    \/ \E t \in AppThreads, op \in {"flush", "len"} : call_method(t, op)
    \/ \E t \in AppThreads : call_stop(t)
    \/ \E t \in AppThreads : stop_cancel(t)
    \/ \E t \in BufThreads : enter(t)
    \/ \E t \in BufThreads, outcome \in HandlerOutcomes : handler_finish(t, outcome)
    \/ TimerNext

\* a running buffer that is only added to, with handlers that return or raise
AutoFlushNext ==
    \/ \E t \in AppThreads : call_add(t)
    \/ \E t \in BufThreads : enter(t)
    \/ \E t \in BufThreads, outcome \in {"return", "raise"} : handler_finish(t, outcome)
    \/ TimerNext

\* every thread that can take a step eventually does; the timer fires
AutoFlushFairness ==
    /\ \A t \in BufThreads : WF_vars(enter(t))
    /\ \A t \in BufThreads : WF_vars(\E outcome \in {"return", "raise"} : handler_finish(t, outcome))
    /\ WF_vars(TimerNext)

(***************************************************************************)
(* Part VII: DataPlaneClient.enforce and the proxy's block message          *)
(* (sdk/python/tupl/data_plane_client.py, sdk/python/tupl/agent.py)        *)
(***************************************************************************)
\* Bound: how many RuleEvidence entries an EnforceResponse carries.
MaxEvidence == 2

\* self.boundary_id of the proxy
boundary_id == "ops"

RuleIds == {"rule-1", "rule-2"}

\* a proto int32 decision: 0, 1, or a value outside Literal[0, 1]
ProtoDecisions == {0, 1, 2}

\* how many floats a repeated similarities field carries: the 4 slots, or fewer
SimilarityCounts == {4, 3}

RuleEvidence ==
    [rule_id : RuleIds, rule_name : {"Rule"}, decision : ProtoDecisions,
     n_similarities : SimilarityCounts]

EnforceResponses ==
    [decision : ProtoDecisions, n_slice_similarities : SimilarityCounts,
     evidence : UNION {[1..k -> RuleEvidence] : k \in 0..MaxEvidence}]

\* mutant: every entry is given the effect "allow"
EffectOf_AlwaysAllow(decision) == "allow"

\* effect="deny" if ev.decision == 0 else "allow"
EffectOf(decision) == IF decision = 0 THEN "deny" ELSE "allow"

\* BoundaryEvidence(...) validates: decision is Literal[0, 1], similarities has 4 entries
ValidBoundaryEvidence(ev) == ev.decision \in {0, 1} /\ ev.n_similarities = 4

\* ComparisonResult(...) validates: 0 <= decision <= 1, slice_similarities has 4 entries
ValidComparisonResult(response) ==
    response.decision \in 0..1 /\ response.n_slice_similarities = 4

\* _convert_response, called by enforce inside "try ... except Exception:
\* raise DataPlaneError": a ComparisonResult, or the error
convert_response(response) ==
    IF /\ \A k \in DOMAIN response.evidence : ValidBoundaryEvidence(response.evidence[k])
       /\ ValidComparisonResult(response)
    THEN [ok |-> TRUE,
          decision |-> response.decision,
          evidence |-> [k \in DOMAIN response.evidence |->
                          [boundary_id   |-> response.evidence[k].rule_id,
                           boundary_name |-> response.evidence[k].rule_name,
                           effect        |-> EffectOf(response.evidence[k].decision),
                           decision      |-> response.evidence[k].decision]]]
    ELSE [ok |-> FALSE, decision |-> 0, evidence |-> <<>>]

\* next((e for e in result.evidence if e.effect == effect and e.decision == decision), None)
FirstEvidence(evidence, effect, decision) ==
    LET ks == {k \in DOMAIN evidence :
                  evidence[k].effect = effect /\ evidence[k].decision = decision}
    IN IF ks = {} THEN <<>>
       ELSE <<evidence[CHOOSE k \in ks : \A j \in ks : k <= j]>>

\* blocking = deny_match or allow_fail
Blocking(evidence) ==
    LET deny_match == FirstEvidence(evidence, "deny", 1)
        allow_fail == FirstEvidence(evidence, "allow", 0)
    IN IF deny_match # <<>> THEN deny_match ELSE allow_fail

\* boundary_info of the BLOCK branch: <<id>> stands for the plain id,
\* <<id, name>> for "id (name)"
boundary_info(evidence) ==
    IF evidence # <<>> /\ Blocking(evidence) # <<>>
    THEN <<Blocking(evidence)[1].boundary_id, Blocking(evidence)[1].boundary_name>>
    ELSE <<boundary_id>>

\* what self.stub.Enforce does: it returns a response or raises grpc.RpcError
RpcOutcomes == {"response", "RpcError"}

\* data_plane_client.enforce(event) for an event that has its layer: the
\* Data Plane's answer converted, DataPlaneError when the call failed
enforce(rpc, response) ==
    /\ dp_call' = <<[rpc |-> rpc,
                     response |-> response,
                     result |-> IF rpc = "RpcError"
                                THEN [ok |-> FALSE, decision |-> 0, evidence |-> <<>>]
                                ELSE convert_response(response)]>>
    /\ UNCHANGED dp_boundary_info
    /\ UNCHANGED <<mp_vars, proxy_vars, ss_vars, ap_vars, pol_vars, buf_vars>>

\* _enforce_tool_calls, "if result.decision == 0": the boundary the soft-block
\* log line or the PermissionError names
block_message ==
    /\ dp_call # <<>>
    /\ dp_boundary_info = <<>>
    /\ dp_call[1].result.ok
    /\ dp_call[1].result.decision = 0
    /\ dp_boundary_info' = <<boundary_info(dp_call[1].result.evidence)>>
    /\ UNCHANGED dp_call
    /\ UNCHANGED <<mp_vars, proxy_vars, ss_vars, ap_vars, pol_vars, buf_vars>>

\* _enforce_tool_calls, "except DataPlaneError": the PermissionError names
\* the tool, the intent and the error, no boundary
fail_closed_message ==
    /\ dp_call # <<>>
    /\ dp_boundary_info = <<>>
    /\ ~dp_call[1].result.ok
    /\ dp_boundary_info' = << <<>> >>
    /\ UNCHANGED dp_call
    /\ UNCHANGED <<mp_vars, proxy_vars, ss_vars, ap_vars, pol_vars, buf_vars>>

DataPlaneInit ==
    /\ dp_call = <<>>
    /\ dp_boundary_info = <<>>

DataPlaneNext ==
    \/ (dp_call = <<>> /\ \E rpc \in RpcOutcomes, response \in EnforceResponses :
                               enforce(rpc, response))
    \/ block_message
    \/ fail_closed_message

ExtInit == ApInit /\ StoreInit /\ SyncInit /\ BufferInit /\ DataPlaneInit

(***************************************************************************)
(* Specifications                                                          *)
(***************************************************************************)
Init == MPInit /\ ProxyInit /\ SessionInit /\ ExtInit /\ soft_block \in BOOLEAN

Next ==
    MPNext \/ ProxyNext \/ SessionNext \/ ApNext \/ PolicyNext \/ BufferNext \/ DataPlaneNext

Spec == Init /\ [][Next]_vars

\* the Management Plane alone (the proxy idle, in its default soft-block mode)
MPSpecInit == Init /\ soft_block = TRUE

MPSpec == MPSpecInit /\ [][MPNext]_vars

\* the session store alone, its callers and the sweep interleaved
SessionSpec == MPSpecInit /\ [][SessionNext]_vars

\* the session store with its baseline calls recorded
BaselineSpec == MPSpecInit /\ [][BaselineNext]_vars

\* evaluate_applicability alone, over intents, boundaries and environments
ApSpec == MPSpecInit /\ [][ApNext]_vars

\* the policy store, its writers and the starting application interleaved
PolicySpec == MPSpecInit /\ [][PolicyNext]_vars

\* application startup on a quiescent store; startup is not held up forever
StartupSpec == MPSpecInit /\ [][StartupNext]_vars /\ WF_vars(SyncNext)

\* one EventBuffer used by two application threads and its timer thread
BufferSpec == MPSpecInit /\ [][BufferNext]_vars

\* a running EventBuffer left to its automatic flushes
AutoFlushSpec == MPSpecInit /\ [][AutoFlushNext]_vars /\ AutoFlushFairness

\* one DataPlaneClient.enforce call of a proxy in data_plane mode
DataPlaneSpec == MPSpecInit /\ [][DataPlaneNext]_vars

\* one proxy instance alone, in either block mode
ProxySpec == Init /\ [][ProxyNext]_vars

(***************************************************************************)
(* Properties of the Management Plane (checked under MPSpec)               *)
(***************************************************************************)
Compared == mp_result # <<>>
LastEvent == mp_call[1].event
LastMatched == mp_call[1].matched
LastResult == mp_result[1]

\* the installed boundaries whose status is active
ActiveSet == {b \in Range(boundaries_store) : b.status = "active"}

\* the active boundaries that pass the applicability filter for the last event
ApplicableSet ==
    {b \in Range(boundaries_store) :
        b.status = "active" /\ is_boundary_applicable(LastEvent, b)}

\* some applicable deny boundary has local decision 1
DenyMatched == \E b \in ApplicableSet : b.effect = "deny" /\ b.id \in LastMatched

MandatoryAllowSet == {b \in ApplicableSet : b.effect = "allow" /\ b.type = "mandatory"}

AllMandatoryAllowPass ==
    MandatoryAllowSet # {} /\ \A b \in MandatoryAllowSet : b.id \in LastMatched

\* C1: whenever an applicable deny boundary has local decision 1, the result
\* of compare_intent is BLOCK (decision 0), whatever the allow boundaries are
\* and whatever they decided.
C1_DenyPrecedence ==
    (Compared /\ DenyMatched) => LastResult.decision = 0

\* C1 witness: a deny boundary and a mandatory allow boundary both matched
\* the event and the result is BLOCK.
C1_Witness ==
    /\ Compared
    /\ DenyMatched
    /\ AllMandatoryAllowPass
    /\ LastResult.decision = 0

\* C2: with at least one applicable boundary and no matching deny boundary,
\* the result is ALLOW exactly when the applicable mandatory allow boundaries
\* are non-empty and all decided 1; with none of them the result is BLOCK
\* with similarities [0,0,0,0].
C2_AllowPhase ==
    (Compared /\ ApplicableSet # {} /\ ~DenyMatched) =>
        /\ LastResult.decision = 1 <=> AllMandatoryAllowPass
        /\ MandatoryAllowSet = {} =>
              LastResult.decision = 0 /\ LastResult.slice_similarities = ZeroSims

\* C2 witness: two applicable mandatory allow boundaries, one decided 1 and
\* the other 0, no deny boundary matched, and the result is BLOCK.
C2_Witness ==
    /\ Compared
    /\ ~DenyMatched
    /\ Cardinality(MandatoryAllowSet) = 2
    /\ \E b \in MandatoryAllowSet : b.id \in LastMatched
    /\ \E b \in MandatoryAllowSet : b.id \notin LastMatched
    /\ LastResult.decision = 0

\* an ALLOW that is not earned by the allow phase
FailOpen ==
    LastResult.decision = 1 /\ ~(AllMandatoryAllowPass /\ ~DenyMatched)

\* C5 as stated: compare_intent fails open exactly when no boundary is
\* installed (the store is empty).
C5_ColdStartOnlyWhenNothingInstalled ==
    Compared => (FailOpen <=> boundaries_store = <<>>)

\* C5 as amended: compare_intent fails open exactly when the store holds no
\* active boundary (nothing installed, or everything installed is disabled);
\* with an active boundary, ALLOW implies an applicable mandatory allow
\* boundary exists, all of them decided 1 and no applicable deny matched.
C5_ColdStartOnlyWhenNothingActive ==
    Compared =>
        /\ FailOpen <=> ActiveSet = {}
        /\ (ActiveSet # {} /\ LastResult.decision = 1) =>
              (AllMandatoryAllowPass /\ ~DenyMatched)

\* C5 witness: the store holds only disabled boundaries and the answer is
\* the cold-start ALLOW.
C5_Witness ==
    /\ Compared
    /\ boundaries_store # <<>>
    /\ ActiveSet = {}
    /\ LastResult.decision = 1

\* C6 as stated: boundaries are installed and none passes the applicability
\* filter: BLOCK, similarities [0,0,0,0], evidence empty.
C6_NoApplicableInstalled ==
    (Compared /\ boundaries_store # <<>> /\ ApplicableSet = {}) =>
        /\ LastResult.decision = 0
        /\ LastResult.slice_similarities = ZeroSims
        /\ LastResult.evidence = <<>>

\* C6 as amended: at least one installed boundary is active and none passes
\* the applicability filter: BLOCK, similarities [0,0,0,0], evidence empty.
C6_NoApplicableActive ==
    (Compared /\ ActiveSet # {} /\ ApplicableSet = {}) =>
        /\ LastResult.decision = 0
        /\ LastResult.slice_similarities = ZeroSims
        /\ LastResult.evidence = <<>>

\* C6 witness: an active boundary whose core rules match the event is
\* filtered out by its soft rules, and the result is BLOCK with zeros.
C6_Witness ==
    /\ Compared
    /\ ApplicableSet = {}
    /\ \E b \in Range(boundaries_store) :
          /\ b.status = "active"
          /\ LastEvent.action \in b.constraints.actions
    /\ LastResult.decision = 0
    /\ LastResult.slice_similarities = ZeroSims

\* the boundaries owned by one tenant, in store order
OwnedBy(store, tenant) ==
    LET Owns(b) == b.tenant_id = tenant IN SelectSeq(store, Owns)

\* C7: the result for a tenant's event is the result computed over that
\* tenant's boundaries alone (other tenants' boundaries do not matter).
C7_TenantIsolation ==
    Compared =>
        LastResult = compare_intent(OwnedBy(boundaries_store, LastEvent.tenant_id),
                                    LastEvent, LastMatched)

\* the store without its optional allow boundaries
WithoutOptionalAllow(store) ==
    LET Keep(b) == ~(b.effect = "allow" /\ b.type = "optional") IN SelectSeq(store, Keep)

\* C8 as stated: the decision over the active boundaries equals the decision
\* over the same boundaries with the optional allow boundaries removed.
C8_OptionalAllowIrrelevant ==
    Compared =>
        LastResult.decision =
            compare_intent(WithoutOptionalAllow(boundaries_store),
                           LastEvent, LastMatched).decision

\* C8 as amended: the two decisions are equal whenever an active boundary
\* remains after the optional allow boundaries are removed.
C8_OptionalAllowIrrelevantUnlessAlone ==
    (Compared /\ \E b \in ActiveSet : ~(b.effect = "allow" /\ b.type = "optional")) =>
        LastResult.decision =
            compare_intent(WithoutOptionalAllow(boundaries_store),
                           LastEvent, LastMatched).decision

\* C8 witness: an applicable optional allow boundary that decided 0 sits
\* beside a mandatory allow boundary that decided 1, and the result is ALLOW.
C8_Witness ==
    /\ Compared
    /\ \E b \in ApplicableSet :
          b.effect = "allow" /\ b.type = "optional" /\ b.id \notin LastMatched
    /\ AllMandatoryAllowPass
    /\ LastResult.decision = 1

(***************************************************************************)
(* Properties of the proxy (checked under ProxySpec)                       *)
(***************************************************************************)
\* how many enforcement requests invocation i issued for tool-call id t
RequestCount(i, t) == Cardinality({n \in 1..Len(requests[i]) : requests[i][n] = t})

\* the state invocation i pulled last has not been forwarded, and the tool
\* call whose enforcement answer came last is still at the head of the
\* tool-call loop: nothing after it was looked at
HaltedAtLastRequest(i) ==
    /\ pc[i] = "raised"
    /\ forwarded[i] + 1 = pulled[i]
    /\ pending[i] # <<>>
    /\ Head(pending[i]) = requests[i][Len(requests[i])]

C4_HardBlockHalts ==
    [][\A i \in Invocations :
          /\ (~soft_block' /\ last_outcome'[i] = "BLOCK") =>
                (HaltedAtLastRequest(i))'
          /\ pc[i] = "raised" =>
                /\ pc'[i] = "raised"
                /\ pulled'[i] = pulled[i]
                /\ forwarded'[i] = forwarded[i]
                /\ requests'[i] = requests[i]
                /\ pending'[i] = pending[i]]_vars

\* C4 witness: in hard-block mode the first of two tool calls of a state
\* was blocked; the invocation raised with the second still unlooked at.
C4_Witness ==
    /\ ~soft_block
    /\ \E i \in Invocations :
          /\ last_outcome[i] = "BLOCK"
          /\ pc[i] = "raised"
          /\ Len(pending[i]) = 2
          /\ forwarded[i] < pulled[i]

\* C9: every entry point, when entered, leaves the enforced-id set empty.
C9_ResetOnEveryEntry ==
    [][\A i \in Invocations :
          (pc[i] = "idle" /\ pc'[i] # "idle") => enforced_tool_call_ids' = {}]_vars

\* C10: in one invocation, at most one enforcement request is issued for a
\* tool call with a given non-empty id.
C10_AtMostOnceEnforcement ==
    \A i \in Invocations :
        \A t \in Range(requests[i]) : t # NoId => RequestCount(i, t) <= 1

\* C11: in soft-block mode a BLOCK answer for a tool call does not raise:
\* on_soft_block is called once for it, its id (when it has one) is in the
\* enforced set, the loop goes on with the next tool call of the state, and
\* once the loop is through the state is forwarded; only a transport failure
\* makes a soft-block invocation raise.
C11_SoftBlockContinues ==
    [][soft_block =>
         \A i \in Invocations :
            /\ (requests'[i] # requests[i] /\ last_outcome'[i] = "BLOCK") =>
                  /\ pc'[i] = "enforce"
                  /\ soft_block_calls'[i] = Append(soft_block_calls[i], Head(pending[i]))
                  /\ Head(pending[i]) # NoId => Head(pending[i]) \in enforced_tool_call_ids'
                  /\ pending'[i] = Tail(pending[i])
            /\ (requests'[i] # requests[i] /\ last_outcome'[i] # "BLOCK") =>
                  soft_block_calls'[i] = soft_block_calls[i]
            /\ (pc[i] = "enforce" /\ pending[i] = <<>> /\ pc'[i] # pc[i]) =>
                  /\ pc'[i] = "pull"
                  /\ forwarded'[i] = forwarded[i] + 1
            /\ pc'[i] = "raised" => last_outcome'[i] = "ERROR"]_vars

\* C11 witness: in soft-block mode both tool calls of a state were answered
\* BLOCK, the handler ran for each, and the state was forwarded.
C11_Witness ==
    /\ soft_block
    /\ \E i \in Invocations :
          /\ Len(soft_block_calls[i]) = 2
          /\ requests[i] = soft_block_calls[i]
          /\ pulled[i] = 1
          /\ forwarded[i] = 1

\* p is what is left of list l after some of its first elements were taken
IsSuffix(p, l) ==
    Len(p) <= Len(l) /\ p = SubSeq(l, Len(l) - Len(p) + 1, Len(l))

\* the tool_calls list of the most recent message of invocation i's current
\* state that carries tool calls
RECURSIVE LastCarrying(_, _)
LastCarrying(msgs, k) ==
    IF k = 0 THEN <<>>
    ELSE IF msgs[k] # <<>> THEN msgs[k]
    ELSE LastCarrying(msgs, k - 1)

LatestToolCalls(i) == LastCarrying(messages[i], Len(messages[i]))

\* C12: within one invocation, enforcement requests are issued one per step,
\* for the state pulled last and not yet forwarded, in tool_calls list order;
\* a state is forwarded only when its tool-call loop is through, and the
\* next state is pulled only after the previous one was forwarded.
C12_EnforcementOrdering ==
    [][\A i \in Invocations :
          /\ (pending'[i] # pending[i] \/ messages'[i] # messages[i]) =>
                (IsSuffix(pending[i], LatestToolCalls(i)))'
          /\ requests'[i] # requests[i] =>
                /\ pc[i] = "enforce"
                /\ forwarded[i] + 1 = pulled[i]
                /\ requests'[i] = Append(requests[i], Head(pending[i]))
                /\ pending'[i] = Tail(pending[i]) \/ pc'[i] = "raised"
                /\ \A j \in Invocations \ {i} : requests'[j] = requests[j]
          /\ forwarded'[i] # forwarded[i] =>
                /\ pending[i] = <<>>
                /\ forwarded'[i] = pulled[i]
                /\ requests'[i] = requests[i]
          /\ pulled'[i] # pulled[i] =>
                /\ forwarded[i] = pulled[i]
                /\ pulled'[i] = pulled[i] + 1
                /\ requests'[i] = requests[i]]_vars

\* C12 witness: a state whose latest tool-call message lists call_2 before
\* call_1 had both enforced in that order and was then forwarded.
C12_Witness ==
    \E i \in Invocations :
        /\ LatestToolCalls(i) = <<"call_2", "call_1">>
        /\ requests[i] = <<"call_2", "call_1">>
        /\ forwarded[i] = 1

\* C13: two invocations on one proxy do not affect each other: an
\* invocation skips a tool call only if it has enforced that id itself, and
\* entering an invocation removes no id that a running invocation enforced.
C13_InvocationIsolation ==
    [][\A i \in Invocations :
          /\ ( /\ pc[i] = "enforce"
               /\ pending[i] # <<>>
               /\ pending'[i] = Tail(pending[i])
               /\ requests'[i] = requests[i] ) =>
                Head(pending[i]) \in Range(requests[i])
          /\ (pc[i] = "idle" /\ pc'[i] # "idle") =>
                \A j \in Invocations \ {i} :
                    pc[j] \in {"pull", "enforce"} =>
                        (Range(requests[j]) \cap enforced_tool_call_ids)
                            \subseteq enforced_tool_call_ids']_vars

\* position of a boundary id in the store
StorePos(id) == CHOOSE k \in 1..Len(boundaries_store) : boundaries_store[k].id = id

\* the evidence records are in store order, no boundary twice, each record
\* carrying its boundary's effect and local decision
EvidenceInStoreOrder(ev) ==
    /\ \A i \in 1..Len(ev) :
          /\ \E b \in ApplicableSet :
                /\ b.id = ev[i].boundary_id
                /\ b.effect = ev[i].effect
          /\ ev[i].decision = (IF ev[i].boundary_id \in LastMatched THEN 1 ELSE 0)
    /\ \A i, j \in 1..Len(ev) :
          i < j => StorePos(ev[i].boundary_id) < StorePos(ev[j].boundary_id)

HasRow(a) == agent_sessions[a] # <<>>

Row(a) == agent_sessions[a][1]

\* C14: once a row's initial_vector is set, no step of write_call,
\* initialize_session_vector or compute_and_update_drift (or of the sweep)
\* changes it while the row exists; a second initialize_session_vector with
\* another vector leaves the first one in place.
C14_BaselineImmutable ==
    [][\A a \in Agents :
          (HasRow(a) /\ HasRow(a)' /\ Row(a).initial_vector # NULL) =>
              Row(a)'.initial_vector = Row(a).initial_vector]_vars

\* C14 witness: a row with a baseline that write_call and
\* compute_and_update_drift have both updated since.
C14_Witness ==
    \E a \in Agents :
        /\ HasRow(a)
        /\ Row(a).initial_vector = "v1"
        /\ Row(a).last_vector = "v2"
        /\ Row(a).call_count = 2

\* C15: when no call for an agent is under way, and its session was never
\* swept, the row's call_count is the number of write_call invocations that
\* returned for the agent and its action_history holds exactly their entries.
C15_NoLostWrites ==
    \A a \in Agents :
        ( /\ \A r \in DOMAIN inflight : inflight[r].agent_id # a
          /\ swept[a] = {}
          /\ writes_returned[a] # {} ) =>
            /\ HasRow(a)
            /\ Row(a).call_count = Cardinality(writes_returned[a])
            /\ Range(Row(a).action_history) = writes_returned[a]
            /\ Len(Row(a).action_history) = Cardinality(writes_returned[a])

\* C16: a row's cumulative_drift never decreases, and every value
\* compute_and_update_drift returns is >= 0 (the sum of the returned values
\* only grows between two inserts of the row).
C16_DriftMonotone ==
    [][\A a \in Agents :
          /\ (HasRow(a) /\ HasRow(a)') =>
                Row(a)'.cumulative_drift >= Row(a).cumulative_drift
          /\ (HasRow(a) \/ ~HasRow(a)') =>
                drift_returned'[a] >= drift_returned[a]]_vars

\* C16 witness: a row that took a positive drift and then a drift whose raw
\* value was negative (dot product above 1) and was clamped to 0.
C16_Witness ==
    \E a \in Agents :
        /\ HasRow(a)
        /\ Row(a).initial_vector = "v2"
        /\ Row(a).last_vector = "v2"
        /\ Row(a).cumulative_drift > 0

\* C17: a live row's cumulative_drift is the sum of the values
\* compute_and_update_drift returned for the agent since the row was
\* inserted, and a step that changes cumulative_drift leaves the baseline
\* as it was.
C17_DriftIsSumOfReturns ==
    [][\A a \in Agents :
          /\ HasRow(a)' => Row(a)'.cumulative_drift = drift_returned'[a]
          /\ (HasRow(a) /\ HasRow(a)' /\ Row(a)'.cumulative_drift # Row(a).cumulative_drift) =>
                Row(a)'.initial_vector = Row(a).initial_vector]_vars

\* C17 witness: two positive per-call drifts were added to one row.
C17_Witness ==
    \E a \in Agents :
        /\ HasRow(a)
        /\ Row(a).cumulative_drift > 120
        /\ Row(a).initial_vector # NULL

\* C18: cleanup_expired at time now deletes exactly the rows with
\* last_seen_at < now - 30 min or created_at < now - 24 h, leaves all other
\* rows as they were, returns the number of rows it deleted, and run again
\* at once deletes nothing and returns 0.
C18_SweepPredicate ==
    [][last_op' = "cleanup_expired" =>
         /\ \A a \in Agents :
               agent_sessions'[a] =
                  IF HasRow(a) /\ ( \/ Row(a).last_seen_at < now - STALE_SECONDS
                                    \/ Row(a).created_at < now - OLD_SECONDS )
                  THEN <<>> ELSE agent_sessions[a]
         /\ last_deleted' = Cardinality({a \in Agents : HasRow(a) /\ ~HasRow(a)'})
         /\ last_op = "cleanup_expired" =>
               (last_deleted' = 0 /\ agent_sessions' = agent_sessions)]_vars

\* C18 witness: a sweep has just deleted the row of one agent and kept the
\* row of another, which was seen within the last 30 minutes.
C18_Witness ==
    /\ last_op = "cleanup_expired"
    /\ last_deleted = 1
    /\ \E a \in Agents : ~HasRow(a) /\ swept[a] # {}
    /\ \E b \in Agents : HasRow(b) /\ now - Row(b).last_seen_at <= STALE_SECONDS

CoreRuleIds == {"ActionRule", "ActorTypeRule", "ResourceTypeRule"}

\* sum of the weights of the outcomes at the given positions
RECURSIVE WeightOf(_, _)
WeightOf(outs, ks) ==
    IF ks = {} THEN 0
    ELSE LET k == CHOOSE x \in ks : TRUE
         IN outs[k].weight + WeightOf(outs, ks \ {k})

\* C21: evaluate_applicability returns not-applicable with score 0 as soon
\* as a core rule (action, actor type, resource type) mismatches; otherwise
\* the score is computed over the non-abstaining soft rules only, lies in
\* [0,1] and is 1.0 when no soft rule participates; in soft mode the policy
\* is applicable iff score >= min_score (0.5 by default, equality counts),
\* in strict mode only if in addition no soft rule mismatches.
C21_ApplicabilityDecision ==
    ap_eval # <<>> =>
        LET e == Head(ap_eval)
            r == e.result
            outs == r.outcomes
            c == e.boundary.constraints
            coreMismatch == \/ e.intent.action \notin c.actions
                            \/ e.intent.actor_type \notin c.actor_types
                            \/ e.intent.resource_type \notin c.types
            soft == {k \in 1..Len(outs) : outs[k].rule_id \notin CoreRuleIds}
            part == {k \in soft : outs[k].decision # "abstain"}
            matched == {k \in part : outs[k].decision = "match"}
            den == WeightOf(outs, part)
            num == WeightOf(outs, matched) - WeightOf(outs, part \ matched)
        IN /\ e.mode \in {"soft", "strict"}
           /\ e.min_score \in 0..100
           /\ e.env_min = <<>> => e.min_score = APPLICABILITY_MIN_SCORE
           /\ coreMismatch =>
                 /\ ~r.applicable
                 /\ r.score = 0
                 /\ soft = {}
                 /\ outs[Len(outs)].decision = "mismatch"
                 /\ \A k \in 1..(Len(outs) - 1) : outs[k].decision # "mismatch"
           /\ ~coreMismatch =>
                 /\ r.score \in 0..100
                 /\ part = {} => r.score = 100
                 /\ part # {} => r.score = ((num + den) * 100) \div (2 * den)
                 /\ e.mode = "soft" => (r.applicable <=> r.score >= e.min_score)
                 /\ e.mode = "strict" =>
                       (r.applicable <=> /\ r.score >= e.min_score
                                         /\ part = matched)

\* C21 witness: under the default environment one soft rule matches, one of
\* equal weight mismatches and the rest abstain: the score equals the
\* threshold and the policy is applicable.
C21_Witness ==
    /\ ap_eval # <<>>
    /\ Head(ap_eval).env_mode = <<>>
    /\ Head(ap_eval).env_min = <<>>
    /\ Head(ap_eval).result.score = APPLICABILITY_MIN_SCORE
    /\ Head(ap_eval).result.applicable
    /\ \E k \in 1..Len(Head(ap_eval).result.outcomes) :
           Head(ap_eval).result.outcomes[k].decision = "abstain"
    /\ \E k \in 1..Len(Head(ap_eval).result.outcomes) :
           /\ Head(ap_eval).result.outcomes[k].rule_id \notin CoreRuleIds
           /\ Head(ap_eval).result.outcomes[k].decision = "mismatch"

(***************************************************************************)
(* Properties of the policy store and the startup sync (checked under      *)
(* PolicySpec and StartupSpec)                                             *)
(***************************************************************************)
\* C22: no reader ever observes a policy row whose anchor payload for the
\* same (tenant, policy id) is absent: the startup sync, reading a row and
\* then its payload, always finds the payload.
C22_RowNeverSeenWithoutPayload ==
    \A k \in PolicyKeys : sync_seen[k] # "absent"

\* keys with an active row and a stored payload
ActiveWithPayload ==
    {k \in PolicyKeys : /\ policies_v2[k] # <<>>
                        /\ Head(policies_v2[k]).status = "active"
                        /\ rule_payloads[k] # <<>>}

SyncIsolation ==
    /\ \A k \in PolicyKeys : install_attempts[k] <= 1
    /\ sync_pc = "raised" => sync_snapshot = <<>>
    /\ sync_snapshot = <<>> => \A k \in PolicyKeys : install_attempts[k] = 0
    /\ (sync_pc = "returned" /\ sync_snapshot # <<>>) =>
          /\ Head(sync_snapshot) = {k \in PolicyKeys : /\ policies_v2[k] # <<>>
                                                       /\ Head(policies_v2[k]).status = "active"}
          /\ \A k \in PolicyKeys :
                install_attempts[k] =
                    IF k \in ActiveWithPayload /\ sync_seen[k] # "fetch_failed" THEN 1 ELSE 0
    /\ lifespan_pc = "ready" => cleanup_task

RECURSIVE Flatten(_)
Flatten(batches) ==
    IF batches = <<>> THEN <<>> ELSE Head(batches) \o Flatten(Tail(batches))

\* C24: once stop() has returned, with no add() concurrent with or after
\* it, the buffer is empty and every item of every add() call has been
\* handed to on_flush exactly once, the batches in insertion order.
C24_NoEventLostOnShutdown ==
    \A t \in AppThreads :
        (buf_pc[t] = "stopped" /\ ~late_add) =>
            /\ ev_buffer = <<>>
            /\ Len(added) = n_added
            /\ \A i \in 1..n_added : \E k \in 1..Len(added) : added[k] = i
            /\ Flatten(flushed) = added

\* C24 witness: stop() has returned after three add() calls whose items
\* went out in more than one batch, none of them late.
C24_Witness ==
    /\ \E t \in AppThreads : buf_pc[t] = "stopped"
    /\ ~late_add
    /\ n_added >= 3
    /\ Len(flushed) >= 2

\* the items handed to on_flush so far
PassedToHandler == {Flatten(flushed)[k] : k \in 1..Len(Flatten(flushed))}

\* C25: while the buffer is running and without any manual flush(), every
\* added item is eventually handed to on_flush: within the add() that fills
\* the buffer to max_size, so that no thread ever finds max_size items
\* waiting, and by the timer thread otherwise; the timer thread never ends
\* and after each of its runs, also one in which on_flush raised, a timer
\* is armed again.
C25_AutoFlushLiveness ==
    /\ \A i \in 1..MaxAdds :
          (\E k \in 1..Len(added) : added[k] = i) ~> (i \in PassedToHandler)
    /\ [](lock_holder = <<>> => Len(ev_buffer) < max_size)
    /\ [](buf_pc[TimerThread] # "dead")
    /\ (buf_pc[TimerThread] = "check") ~> (buf_pc[TimerThread] = "armed")

\* C25 witness: one batch went out full from an add(), a smaller one went
\* out through the timer thread, and the timer is armed again.
C25_Witness ==
    /\ running
    /\ \E k \in 1..Len(flushed) : Len(flushed[k]) = max_size
    /\ \E k \in 1..Len(flushed) : Len(flushed[k]) < max_size
    /\ buf_pc[TimerThread] = "armed"
    /\ ev_buffer = <<>>

\* threads inside on_flush, whether running it or stuck in a call it made
InHandler ==
    {t \in BufThreads : buf_pc[t] = "handler" \/ buf_nested[t] # "none"}

C26_CountMatchesHistory ==
    /\ [](\A a \in Agents :
             agent_sessions[a] # <<>> =>
                 agent_sessions[a][1].call_count = Len(agent_sessions[a][1].action_history))
    /\ [][\A a \in Agents :
             (agent_sessions[a] # <<>> /\ agent_sessions'[a] # <<>>) =>
                 agent_sessions'[a][1].created_at = agent_sessions[a][1].created_at]_vars

\* C26 witness: three write_call invocations for one agent have returned,
\* one of them overwritten by a concurrent one, time has passed, and the
\* row holds two entries and counts two.
C26_Witness ==
    \E a \in Agents :
        /\ agent_sessions[a] # <<>>
        /\ Cardinality(writes_returned[a]) = 3
        /\ agent_sessions[a][1].call_count = 2
        /\ agent_sessions[a][1].last_seen_at > agent_sessions[a][1].created_at

C28_NoIdNeverDeduplicated ==
    /\ []("" \notin enforced_tool_call_ids)
    /\ [][\A i \in Invocations :
             /\ pulled'[i] = pulled[i] + 1 => pending'[i] = LatestToolCalls(i)'
             /\ (pending[i] # <<>> /\ Head(pending[i]) = "" /\ pending'[i] # pending[i]) =>
                    /\ pending'[i] = Tail(pending[i])
                    /\ requests'[i] = Append(requests[i], "")
             /\ forwarded'[i] = forwarded[i] + 1 =>
                    \A k \in DOMAIN pending[i] : pending[i][k] # ""]_vars

\* C28 witness: one invocation was yielded the message with a tool call
\* without id twice; the call with an id was enforced once and skipped the
\* second time, the call without id was enforced both times, and both
\* states were forwarded.
C28_Witness ==
    \E i \in Invocations :
        /\ forwarded[i] = 2
        /\ messages[i] = << <<"call_1", "">> >>
        /\ requests[i] = <<"call_1", "", "">>
        /\ enforced_tool_call_ids = {"call_1"}

(***************************************************************************)
(* Properties of DataPlaneClient.enforce (checked under DataPlaneSpec)     *)
(***************************************************************************)
\* C30: every evidence entry of a result of _convert_response has effect
\* "deny" exactly when its decision is 0, so none is a deny entry with
\* decision 1 or an allow entry with decision 0, and the boundary named for
\* a BLOCK answered by the Data Plane is the proxy's configured boundary_id.
C30_EvidenceNeverNamesBlockingRule ==
    /\ (dp_call # <<>> /\ dp_call[1].result.ok) =>
          \A k \in DOMAIN dp_call[1].result.evidence :
              LET e == dp_call[1].result.evidence[k]
              IN /\ (e.effect = "deny") <=> (e.decision = 0)
                 /\ e.effect \in {"allow", "deny"}
                 /\ e.decision = dp_call[1].response.evidence[k].decision
                 /\ ~(e.effect = "deny" /\ e.decision = 1)
                 /\ ~(e.effect = "allow" /\ e.decision = 0)
    /\ (dp_boundary_info # <<>> /\ dp_call[1].result.ok) =>
          dp_boundary_info[1] = <<"ops">>

\* C30 witness: the Data Plane answered BLOCK with the evidence of one rule
\* that decided 1 and one that decided 0, and the block message names the
\* configured boundary.
C30_Witness ==
    /\ dp_call # <<>>
    /\ dp_call[1].result.ok
    /\ dp_call[1].rpc = "response"
    /\ dp_call[1].result.decision = 0
    /\ Len(dp_call[1].result.evidence) = 2
    /\ dp_call[1].result.evidence[1].decision = 1
    /\ dp_call[1].result.evidence[2].decision = 0
    /\ dp_boundary_info = << <<"ops">> >>

====
